---- MODULE Spec2Model ----
(***************************************************************************)
(* Provider abstraction and tool-calling orchestration of VibeCoder:       *)
(* AIManager (conversation store, history projection, bounded tool loop)   *)
(* and AIProvider.executeToolCalls.                                        *)
(*                                                                         *)
(* Conventions.  A JavaScript object is a record; a field a JavaScript     *)
(* object may lack is a field the record may lack ("metadata" \in DOMAIN   *)
(* m).  An array is a sequence; indexes are 1-based and 0 stands for the   *)
(* code's -1 ("not found").  message.content is a string or an array in    *)
(* the code: here it is [kind |-> "string", text |-> s] or                 *)
(* [kind |-> "array", parts |-> <<...>>].  structuredClone is the identity *)
(* on values.                                                              *)
(***************************************************************************)
EXTENDS Integers, Sequences, FiniteSets, TLC

(***************************************************************************)
(* Bounds of the model.                                                    *)
(***************************************************************************)
MaxStore == 4          \* messages the environment lets the store grow to
MaxToolUses == 2       \* tool_use blocks the provider emits into one store
MaxCalls == 2          \* tool calls in one provider response
MaxBudget == 2         \* largest options.maxIterations supplied by a caller
MaxLimit == 1          \* largest options.limitMessages supplied by a caller

(***************************************************************************)
(* Program constants.                                                      *)
(***************************************************************************)
DefaultMaxIterations == 10
ContinuationMaxIterations == 20

ContinueToken == "__continue_tools__"

(***************************************************************************)
(* The environment: what callers, providers and handlers may supply.       *)
(***************************************************************************)
UserTexts == {"hi"}
ProviderTexts == {"", "done"}
ToolNames == {"echo"}                   \* names a provider may ask for
\* ChatClient.allToolDefinitions, cut down to one tool of each category
allToolDefinitions ==
    << [name |-> "echo", category |-> "filesystem"],
       [name |-> "code_summary", category |-> "code"] >>
SystemPrompts == {"", "sys"}
Null == [null |-> TRUE]

\* a value a handler resolves with, or the Error it throws
HandlerOutcomes(args) ==
    { [threw |-> FALSE, value |-> [t |-> "string", v |-> args.x]],
      [threw |-> TRUE,  message |-> "boom"] }

SummaryOutcomes ==
    { [threw |-> FALSE, value |-> [t |-> "string", v |-> "S"]],
      [threw |-> TRUE,  message |-> "boom"] }

NoOutcome == [threw |-> FALSE, value |-> [t |-> "undefined"]]

\* String(v) of a JavaScript value
JSString(v) ==
    IF v.t = "string" THEN v.v
    ELSE IF v.t = "undefined" THEN "undefined"
    ELSE "null"

(***************************************************************************)
(* Sequence helpers.                                                       *)
(***************************************************************************)
Slice(s, i) == SubSeq(s, i, Len(s))                \* Array.slice(i-1)
Last(s) == s[Len(s)]
IsPrefix(s, t) == Len(s) <= Len(t) /\ SubSeq(t, 1, Len(s)) = s
SelectIdx(s, P(_)) == { i \in 1..Len(s) : P(s[i]) }
MaxOf(S) == CHOOSE x \in S : \A y \in S : y <= x

MapSeq(F(_), s) == [i \in 1..Len(s) |-> F(s[i])]

RECURSIVE JoinComma(_)
JoinComma(names) ==
    IF Len(names) = 0 THEN ""
    ELSE IF Len(names) = 1 THEN names[1]
    ELSE names[1] \o ", " \o JoinComma(Tail(names))

IsString(content) == content.kind = "string"
IsArray(content) == content.kind = "array"
Str(s) == [kind |-> "string", text |-> s]
Arr(parts) == [kind |-> "array", parts |-> parts]

HasToolUse(msg) ==
    /\ msg.role = "assistant"
    /\ IsArray(msg.content)
    /\ \E i \in 1..Len(msg.content.parts) : msg.content.parts[i].type = "tool_use"

RECURSIVE FoldLeft(_, _, _)
FoldLeft(Op(_, _), acc, s) ==
    IF s = <<>> THEN acc ELSE FoldLeft(Op, Op(acc, Head(s)), Tail(s))

\* obj.field = value on a record: the field is added or overwritten
SetField(obj, field, value) == (field :> value) @@ obj
Has(obj, field) == field \in DOMAIN obj

\* [...new Set(ids)]: first occurrences, in order
Dedupe(ids) ==
    FoldLeft(LAMBDA acc, x : IF \E i \in 1..Len(acc) : acc[i] = x THEN acc ELSE Append(acc, x),
             <<>>, ids)

(***************************************************************************)
(* AIManager: message ids.                                                 *)
(***************************************************************************)
\* ensureMessageId(message): the message and the counter afterwards.  Ids
\* are numbers here; the parseInt branch for string ids is not reached by a
\* store that only sendMessage has written, and a restored message whose id
\* is a string is treated as one with the number it parses to, or as one
\* without an id when it parses to none.
\* an id taken from the counter without advancing it
ensureMessageIdStuck(message, counter) ==
    IF Has(message, "_id")
    THEN [message |-> message,
          counter |-> IF message._id > counter THEN message._id ELSE counter]
    ELSE [message |-> SetField(message, "_id", counter + 1),
          counter |-> counter]

ensureMessageId(message, counter) ==
    IF Has(message, "_id")
    THEN [message |-> message,
          counter |-> IF message._id > counter THEN message._id ELSE counter]
    ELSE [message |-> SetField(message, "_id", counter + 1),
          counter |-> counter + 1]

\* ensureHistoryMessageIds(): the store and the counter afterwards
ensureHistoryMessageIds(history, counter) ==
    FoldLeft(LAMBDA acc, entry :
                LET r == ensureMessageId(entry, acc.counter)
                IN  [history |-> Append(acc.history, r.message), counter |-> r.counter],
             [history |-> <<>>, counter |-> counter], history)

\* addMessage(role, content): the store and the counter afterwards
addMessage(history, counter, role, content) ==
    LET r == ensureMessageId([role |-> role, content |-> content], counter)
    IN  [history |-> Append(history, r.message), counter |-> r.counter]

(***************************************************************************)
(* Object identity.  A value of the model stands for a JavaScript object   *)
(* and its contents; where it matters which object it is, the objects of   *)
(* the store are marked with their place in the store in a field _ref: the *)
(* message, its content array, each block of it and its metadata object.   *)
(* An object without the mark is an object of its own; an object that      *)
(* carries the mark of a place IS the object of the store at that place,   *)
(* so that a write to it is a write to the store.                          *)
(***************************************************************************)
WithRef(obj, ref) == SetField(obj, "_ref", ref)

\* the objects of the message at place i of the store
MarkedMessage(msg, i) ==
    [f \in DOMAIN msg \cup {"_ref"} |->
        IF f = "_ref" THEN <<i, "message", 0>>
        ELSE IF f = "content" /\ IsArray(msg.content)
        THEN [kind |-> "array", _ref |-> <<i, "content", 0>>,
              parts |-> [k \in 1..Len(msg.content.parts) |->
                            WithRef(msg.content.parts[k], <<i, "block", k>>)]]
        ELSE IF f = "metadata" THEN WithRef(msg.metadata, <<i, "metadata", 0>>)
        ELSE msg[f]]

\* this.conversationHistory, as the objects it holds
Marked(store) == [i \in 1..Len(store) |-> MarkedMessage(store[i], i)]

\* a new object with the fields of obj
CopyOf(obj) == [f \in DOMAIN obj \ {"_ref"} |-> obj[f]]

\* a clone that hands back the very object it was given
cloneMessageSameObject(message) == message

\* a clone that copies the message object and shares what it refers to
cloneMessageShallow(message) == CopyOf(message)

\* structuredClone(message), or JSON.parse(JSON.stringify(message)): new
\* objects all the way down, with the same contents
cloneMessage(message) ==
    [f \in DOMAIN message \ {"_ref"} |->
        IF f = "content" /\ IsArray(message.content)
        THEN [kind |-> "array", parts |-> MapSeq(CopyOf, message.content.parts)]
        ELSE IF f = "metadata" THEN CopyOf(message.metadata)
        ELSE message[f]]

\* the contents of a message, whichever objects hold them
ContentsOf(message) ==
    [f \in DOMAIN message \ {"_ref"} |->
        IF f = "content" /\ IsArray(message.content)
        THEN [kind |-> "array", parts |-> MapSeq(CopyOf, message.content.parts)]
        ELSE IF f = "metadata" THEN CopyOf(message.metadata)
        ELSE message[f]]

IsStoreMessage(entry, i) == Has(entry, "_ref") /\ entry._ref = <<i, "message", 0>>

\* the store after a call of getHistoryView that returned view: a message
\* object of the store that the call put in the view is, in the store too,
\* what the call made of it
StoreAfterView(store, view) ==
    [i \in 1..Len(store) |->
        IF \E k \in 1..Len(view) : IsStoreMessage(view[k], i)
        THEN ContentsOf(view[CHOOSE k \in 1..Len(view) : IsStoreMessage(view[k], i)])
        ELSE store[i]]

(***************************************************************************)
(* AIManager: history projection.                                          *)
(***************************************************************************)
IsUserText(entry) == entry.role = "user" /\ IsString(entry.content)

findLatestUserTextMessageIndex(messages) ==
    LET hits == SelectIdx(messages, IsUserText)
    IN  IF hits = {} THEN 0 ELSE MaxOf(hits)

\* a search that stops at the first tool-bearing assistant message
findFirstToolInteractionIndex(history) ==
    LET hits == SelectIdx(history, HasToolUse)
    IN  IF hits = {} THEN 0 ELSE CHOOSE i \in hits : \A j \in hits : i <= j

findLastToolInteractionIndex(history) ==
    LET hits == SelectIdx(history, HasToolUse)
    IN  IF hits = {} THEN 0 ELSE MaxOf(hits)

\* the suffix that starts at the limit-th user text message counted from the
\* end; the whole store when there are fewer
sliceHistoryByUserMessages(history, limit) ==
    IF limit <= 0 THEN history
    ELSE LET hits == { i \in SelectIdx(history, IsUserText) :
                         Cardinality({ j \in SelectIdx(history, IsUserText) : j >= i }) = limit }
         IN  IF hits = {} THEN history ELSE Slice(history, MaxOf(hits))

EmptySummary ==
    [successCount |-> 0, failureCount |-> 0, successNames |-> <<>>, failureNames |-> <<>>]

\* every tool call counted as a success
buildToolBatchSummaryAllSucceeded(toolMetas) ==
    FoldLeft(LAMBDA summary, meta :
                LET names == IF Has(meta, "name") THEN <<meta.name>> ELSE <<>>
                IN  [summary EXCEPT !.successCount = @ + 1, !.successNames = @ \o names],
             EmptySummary, toolMetas)

buildToolBatchSummary(toolMetas) ==
    FoldLeft(LAMBDA summary, meta :
                LET isError == Has(meta, "isError") /\ meta.isError
                    names == IF Has(meta, "name") THEN <<meta.name>> ELSE <<>>
                IN  IF isError
                    THEN [summary EXCEPT !.failureCount = @ + 1, !.failureNames = @ \o names]
                    ELSE [summary EXCEPT !.successCount = @ + 1, !.successNames = @ \o names],
             EmptySummary, toolMetas)

buildToolSummaryText(summaryInfo) ==
    LET firstOr(names) == IF Len(names) > 0 THEN names[1] ELSE "tool"
        ok == IF summaryInfo.successCount = 0 THEN <<>>
              ELSE IF summaryInfo.successCount = 1
                   THEN << "Successfully called tool " \o firstOr(summaryInfo.successNames) >>
                   ELSE << "Successfully called " \o ToString(summaryInfo.successCount) \o " tools" >>
        ko == IF summaryInfo.failureCount = 0 THEN <<>>
              ELSE IF summaryInfo.failureCount = 1
                   THEN << "Tool " \o firstOr(summaryInfo.failureNames) \o " failed" >>
                   ELSE << "Failed " \o ToString(summaryInfo.failureCount) \o " tools"
                           \o (IF Len(summaryInfo.failureNames) > 0
                               THEN " (" \o JoinComma(summaryInfo.failureNames) \o ")"
                               ELSE "") >>
    IN  ok \o ko

\* a copy that loses the counts
cloneSummaryInfoEmpty(info) == EmptySummary

cloneSummaryInfo(info) == info

SummaryBlock(text) == [type |-> "text", text |-> text, metadata |-> [toolSummary |-> TRUE]]

\* the first loop of getHistoryView: tool id -> {name, id, isError}
BuildToolInfo(history) ==
    LET OnUse(info, part) ==
            IF part.type = "tool_use"
            THEN SetField(info, part.id, [name |-> part.name, id |-> part.id])
            ELSE info
        OnResult(info, part) ==
            IF part.type = "tool_result"
            THEN LET old == IF Has(info, part.tool_use_id) THEN info[part.tool_use_id] ELSE <<>>
                     e1 == SetField(old, "isError", Has(part, "is_error") /\ part.is_error)
                     e2 == IF ~Has(e1, "name") /\ Has(part, "name")
                           THEN SetField(e1, "name", part.name) ELSE e1
                     e3 == IF ~Has(e2, "id") THEN SetField(e2, "id", part.tool_use_id) ELSE e2
                 IN  SetField(info, part.tool_use_id, e3)
            ELSE info
        OnMessage(info, msg) ==
            IF msg.role = "assistant" /\ IsArray(msg.content)
            THEN FoldLeft(OnUse, info, msg.content.parts)
            ELSE IF msg.role = "user" /\ IsArray(msg.content)
            THEN FoldLeft(OnResult, info, msg.content.parts)
            ELSE info
    IN  FoldLeft(OnMessage, <<>>, history)

\* appendBatch() of getHistoryView on the message under transformation
appendBatch(t) ==
    IF Len(t.pendingToolBatch) = 0 THEN t
    ELSE LET batchInfo == buildToolBatchSummary(t.pendingToolBatch)
             base == IF t.summaryInfo = Null THEN EmptySummary ELSE t.summaryInfo
             batchIds == MapSeq(LAMBDA item : item.id, t.pendingToolBatch)
         IN  [t EXCEPT
                !.summaryInfo =
                    [successCount |-> base.successCount + batchInfo.successCount,
                     failureCount |-> base.failureCount + batchInfo.failureCount,
                     successNames |-> base.successNames \o batchInfo.successNames,
                     failureNames |-> base.failureNames \o batchInfo.failureNames],
                !.summaryToolIds = @ \o batchIds,
                !.pendingToolBatch = <<>>]

\* the body of the branch for an assistant message with array content, up to
\* the point where the summary texts are pushed
TransformParts(msg, toolInfo) ==
    LET start == [content |-> <<>>, hasNonSummaryText |-> FALSE, summaryInfo |-> Null,
                  summaryToolIds |-> IF Has(msg, "summaryToolIds") THEN msg.summaryToolIds ELSE <<>>,
                  pendingToolBatch |-> <<>>]
        OnPart(t, part) ==
            IF part.type = "text"
            THEN LET b == appendBatch(t)
                 IN  [b EXCEPT !.content = Append(@, [type |-> "text", text |-> part.text]),
                               !.hasNonSummaryText = TRUE]
            ELSE IF part.type = "tool_use"
            THEN LET meta == IF Has(toolInfo, part.id) THEN toolInfo[part.id]
                             ELSE [name |-> part.name, isError |-> FALSE, id |-> part.id]
                 IN  [t EXCEPT !.pendingToolBatch = Append(@, meta)]
            ELSE t
    IN  appendBatch(FoldLeft(OnPart, start, msg.content.parts))

\* the end of the branch for an assistant message with array content: the
\* summary texts are pushed, and the message is merged into the summary
\* before it or pushed
PushTransformed(abridged, msg, t, summaryTexts) ==
    LET content == t.content \o MapSeq(SummaryBlock, summaryTexts)
        summarised == t.summaryInfo # Null /\ ~t.hasNonSummaryText /\ Len(summaryTexts) > 0
        summaryMeta == cloneSummaryInfo(t.summaryInfo)
        oldMeta == IF Has(msg, "metadata") THEN cloneMessage(msg).metadata ELSE <<>>
        meta == IF Len(t.summaryToolIds) > 0
                THEN [toolSummary |-> TRUE, summaryInfo |-> summaryMeta,
                      summaryToolIds |-> Dedupe(t.summaryToolIds)] @@ oldMeta
                ELSE [toolSummary |-> TRUE, summaryInfo |-> summaryMeta] @@ oldMeta
        base == [hasNonSummaryText |-> t.hasNonSummaryText, summaryInfo |-> t.summaryInfo,
                 summaryToolIds |-> t.summaryToolIds, content |-> Arr(content)]
                @@ cloneMessage(msg)
        prev == IF Len(abridged) > 0 THEN Last(abridged) ELSE Null
        mergeable == /\ summarised
                     /\ prev # Null
                     /\ Has(prev, "metadata") /\ Has(prev.metadata, "toolSummary")
                     /\ prev.metadata.toolSummary
                     /\ Has(prev, "hasNonSummaryText") /\ prev.hasNonSummaryText = FALSE
        Merged(p) ==
            [prev EXCEPT
               !.content = Arr(MapSeq(SummaryBlock, buildToolSummaryText(p))),
               !.metadata = SetField(@, "summaryInfo", p),
               !.hasNonSummaryText = FALSE]
    IN  IF mergeable
        THEN [abridged EXCEPT ![Len(abridged)] =
                Merged([successCount |-> prev.metadata.summaryInfo.successCount
                                          + summaryMeta.successCount,
                        failureCount |-> prev.metadata.summaryInfo.failureCount
                                          + summaryMeta.failureCount,
                        successNames |-> prev.metadata.summaryInfo.successNames
                                          \o summaryMeta.successNames,
                        failureNames |-> prev.metadata.summaryInfo.failureNames
                                          \o summaryMeta.failureNames])]
        ELSE IF Len(content) > 0
        THEN Append(abridged,
                    IF summarised
                    THEN [SetField(base, "metadata", meta) EXCEPT !.hasNonSummaryText = FALSE]
                    ELSE IF Has(base, "metadata") /\ Has(base.metadata, "toolSummary")
                    THEN [base EXCEPT !.hasNonSummaryText = FALSE]
                    ELSE base)
        ELSE abridged

\* the summary texts of the transformed message t
SummaryTextsOf(t) ==
    IF t.summaryInfo = Null THEN <<>> ELSE buildToolSummaryText(t.summaryInfo)

\* the branch for an assistant message with array content
AbridgeAssistant(abridged, msg, t) == PushTransformed(abridged, msg, t, SummaryTextsOf(t))

\* a loop that leaves every message of tool results out of the view
AbridgeStepDropsResults(abridged, history, i, toolInfo, lastToolMessageIndex, lastToolUseIds) ==
    IF i = lastToolMessageIndex THEN Append(abridged, cloneMessage(history[i]))
    ELSE IF history[i].role = "assistant" /\ IsArray(history[i].content)
    THEN AbridgeAssistant(abridged, history[i], TransformParts(history[i], toolInfo))
    ELSE IF /\ history[i].role = "user" /\ IsArray(history[i].content)
            /\ Len(history[i].content.parts) > 0
            /\ history[i].content.parts[1].type = "tool_result" THEN
        IF /\ lastToolUseIds # Null
           /\ \E k \in 1..Len(history[i].content.parts) :
                 /\ history[i].content.parts[k].type = "tool_result"
                 /\ history[i].content.parts[k].tool_use_id \in lastToolUseIds.ids
        THEN abridged
        ELSE abridged
    ELSE Append(abridged, cloneMessage(history[i]))

\* one pass of the main loop of getHistoryView over history[i]
\* the plain text messages of the assistant left out of the view
AbridgeStepDropsAssistantText(abridged, history, i, toolInfo, lastToolMessageIndex, lastToolUseIds) ==
    IF i = lastToolMessageIndex THEN Append(abridged, cloneMessage(history[i]))
    ELSE IF history[i].role = "assistant" /\ IsArray(history[i].content)
    THEN AbridgeAssistant(abridged, history[i], TransformParts(history[i], toolInfo))
    ELSE IF /\ history[i].role = "user" /\ IsArray(history[i].content)
            /\ Len(history[i].content.parts) > 0
            /\ history[i].content.parts[1].type = "tool_result" THEN
        IF /\ lastToolUseIds # Null
           /\ \E k \in 1..Len(history[i].content.parts) :
                 /\ history[i].content.parts[k].type = "tool_result"
                 /\ history[i].content.parts[k].tool_use_id \in lastToolUseIds.ids
        THEN Append(abridged, cloneMessage(history[i]))
        ELSE abridged
    ELSE IF history[i].role = "assistant" THEN abridged
    ELSE Append(abridged, cloneMessage(history[i]))

AbridgeStep(abridged, history, i, toolInfo, lastToolMessageIndex, lastToolUseIds) ==
    IF i = lastToolMessageIndex THEN Append(abridged, cloneMessage(history[i]))
    ELSE IF history[i].role = "assistant" /\ IsArray(history[i].content)
    THEN AbridgeAssistant(abridged, history[i], TransformParts(history[i], toolInfo))
    ELSE IF /\ history[i].role = "user" /\ IsArray(history[i].content)
            /\ Len(history[i].content.parts) > 0
            /\ history[i].content.parts[1].type = "tool_result" THEN
        IF /\ lastToolUseIds # Null
           /\ \E k \in 1..Len(history[i].content.parts) :
                 /\ history[i].content.parts[k].type = "tool_result"
                 /\ history[i].content.parts[k].tool_use_id \in lastToolUseIds.ids
        THEN Append(abridged, cloneMessage(history[i]))
        ELSE abridged
    ELSE Append(abridged, cloneMessage(history[i]))

RECURSIVE AbridgeFrom(_, _, _, _, _, _)
AbridgeFrom(abridged, history, i, toolInfo, lastIdx, lastIds) ==
    IF i > Len(history) THEN abridged
    ELSE AbridgeFrom(AbridgeStep(abridged, history, i, toolInfo, lastIdx, lastIds),
                     history, i + 1, toolInfo, lastIdx, lastIds)

\* the ids of the tool_use blocks of the last tool-bearing assistant message
LastToolUseIds(history, lastToolMessageIndex) ==
    IF lastToolMessageIndex = 0 THEN Null
    ELSE [ids |-> { part.id : part \in
                      { history[lastToolMessageIndex].content.parts[k] :
                          k \in { k \in 1..Len(history[lastToolMessageIndex].content.parts) :
                                    history[lastToolMessageIndex].content.parts[k].type
                                       = "tool_use" } } }]

\* the abridged view of history
Abridge(history, lastToolMessageIndex) ==
    AbridgeFrom(<<>>, history, 1, BuildToolInfo(history), lastToolMessageIndex,
                LastToolUseIds(history, lastToolMessageIndex))

\* a window that is never widened
LimitedNotWidened(store, sliced, lastToolIdx) == sliced

\* the window of the store a limit leaves: the messages from the limit-th
\* last user text message on, widened to hold the last tool interaction
Limited(store, sliced, lastToolIdx) ==
    IF lastToolIdx # 0 /\ lastToolIdx - 1 < Len(store) - Len(sliced)
    THEN Slice(store, lastToolIdx)
    ELSE sliced

ViewOf(history, minimizeTokens) ==
    IF ~minimizeTokens THEN MapSeq(cloneMessage, history)
    ELSE Abridge(history, findLastToolInteractionIndex(history))

\* getHistoryView(minimizeTokens, limitMessages) over the store
getHistoryView(store, minimizeTokens, limitMessages) ==
    IF limitMessages > 0
    THEN ViewOf(Limited(store, sliceHistoryByUserMessages(store, limitMessages),
                        findLastToolInteractionIndex(store)),
                minimizeTokens)
    ELSE ViewOf(store, minimizeTokens)

(***************************************************************************)
(* AIManager.buildAugmentedPrompt.  outcome is what the code_summary       *)
(* handler does when it is called; String.trimEnd is the identity on the   *)
(* summaries of this model, none of which ends in white space.             *)
(***************************************************************************)
HasTool(registry, name) == \E i \in 1..Len(registry) : registry[i] = name

buildAugmentedPrompt(originalMessage, registry, outcome) ==
    LET summaryText ==
            IF HasTool(registry, "code_summary")
            THEN IF outcome.threw
                 THEN "[Error generating summary: " \o outcome.message \o "]"
                 ELSE IF outcome.value.t = "string" THEN outcome.value.v
                 ELSE "[code_summary returned no data]"
            ELSE "[code_summary tool unavailable]"
        finalSummary == IF summaryText = "" THEN "[No summary generated]" ELSE summaryText
    IN  "Code summary:\n" \o finalSummary \o "\n\n" \o originalMessage

(***************************************************************************)
(* State.                                                                  *)
(***************************************************************************)
VARIABLES
    currentProvider,       \* AIManager.currentProvider; "" is null
    tools,                 \* AIManager.tools: the names, in registration order
    conversationHistory,   \* AIManager.conversationHistory
    systemPrompt,          \* AIManager.systemPrompt; "" is null
    messageIdCounter,      \* AIManager.messageIdCounter
    pc,                    \* where the sendMessage call in flight stands
    frame,                 \* the local variables of that call
    lastResult,            \* how the sendMessage call settled, while pc = "settled"
    paused,                \* the latest exchange ended with needsContinuation and
                           \* the store has not been touched since
    trace,                 \* history variable: what this call has done so far
    pendingContinueButton, \* ChatClient.pendingContinueButton; Null is null
    tabManager,            \* TabManager: tabs, activeTab, dirtyFiles
    suspended              \* the TabManager calls suspended at an await

\* the editor tabs and the calls on them
tabVars == <<tabManager, suspended>>

vars == <<currentProvider, tools, conversationHistory, systemPrompt, messageIdCounter,
          pc, frame, lastResult, paused, trace, pendingContinueButton, tabVars>>

\* no other sendMessage call is in flight beside the one of pc and frame
NoOverlap == [pc |-> "none"]

NoFrame ==
    [isContinuation |-> FALSE, messages |-> <<>>, MAX_ITERATIONS |-> 0,
     continueProcessing |-> FALSE, finalResponse |-> Null, allToolCalls |-> <<>>,
     allToolResults |-> <<>>, iterations |-> 0, response |-> Null, toolResults |-> <<>>,
     callIndex |-> 0, running |-> {}, progressCallback |-> FALSE, prepareRateLimit |-> FALSE,
     overlapping |-> NoOverlap]

\* the locals of a call that has ended or not begun: a call that overlaps it
\* keeps its own
FrameAtEnd == [NoFrame EXCEPT !.overlapping = frame.overlapping]

NoTrace ==
    [storeAtStart |-> <<>>,      \* the store when sendMessage was entered
     userMessage |-> "",         \* its first argument
     appended |-> FALSE,         \* it appended a user text message
     preAdded |-> FALSE,         \* options.preAddedUserMessage
     given |-> <<>>,             \* options.maxIterations, when it was passed
     budget |-> 0,               \* MAX_ITERATIONS
     resumes |-> FALSE,          \* it is the continuation of a paused exchange
     providerCalls |-> <<>>,     \* the callAPI calls made, with their outcomes
     handlerCalls |-> <<>>,      \* the tool handlers run, with their outcomes
     handlerStarts |-> <<>>,     \* the tool handlers started by executeToolCalls
     rateLimitCalls |-> <<>>,    \* the calls of options.prepareRateLimit
     progressCalls |-> <<>>,     \* the calls of options.onProgress
     hooks |-> {},               \* the hooks its options carried
     outbound |-> <<>>,          \* the outbound list as it was built
     cleared |-> 0]              \* messages the last clearHistory removed

NoResult == [status |-> "none"]

\* the TabManager after its constructor: no file tab, the chat tab active
NoTabs ==
    [tabs |-> <<>>,                  \* this.tabs
     activeTab |-> "chat",           \* this.activeTab
     sessions |-> {},                \* the keys of this.sessions
     dirtyFiles |-> {},              \* this.dirtyFiles
     tabElements |-> {},             \* the tab elements in the tab bar
     opened |-> 0,                   \* the tabs opened so far
     lastClose |-> [tabId |-> "none"]]   \* history: the closeTab that ended last

Init ==
    /\ currentProvider = ""
    /\ tools = <<>>
    /\ conversationHistory = <<>>
    /\ systemPrompt = ""
    /\ messageIdCounter = 0
    /\ pc = "idle"
    /\ frame = NoFrame
    /\ lastResult = NoResult
    /\ paused = FALSE
    /\ trace = NoTrace
    /\ pendingContinueButton = Null
    /\ tabManager = NoTabs
    /\ suspended = <<>>

(***************************************************************************)
(* Configuration calls of the caller, made between two exchanges.          *)
(***************************************************************************)
registerProvider(name) ==
    /\ pc = "idle"
    /\ currentProvider' = IF currentProvider = "" THEN name ELSE currentProvider
    /\ UNCHANGED <<tools, conversationHistory, systemPrompt, messageIdCounter, pc, frame,
                   lastResult, paused, pendingContinueButton, tabVars, trace>>

\* registerTool(name, ...) on a registry: the registry afterwards
registerTool(registry, name) == Append(registry, name)

\* ChatClient.registerUniversalTools(): the registry is emptied and the tool
\* definitions of the enabled categories are registered, in definition order
registerUniversalTools(toolFilters) ==
    /\ pc = "idle"
    /\ tools' = FoldLeft(LAMBDA registry, toolDef :
                            IF toolDef.category = "code" /\ ~toolFilters.code THEN registry
                            ELSE IF toolDef.category = "filesystem" /\ ~toolFilters.filesystem
                            THEN registry
                            ELSE registerTool(registry, toolDef.name),
                         <<>>, allToolDefinitions)
    /\ UNCHANGED <<currentProvider, conversationHistory, systemPrompt, messageIdCounter, pc,
                   frame, lastResult, paused, pendingContinueButton, tabVars, trace>>

setSystemPrompt(prompt) ==
    /\ pc = "idle"
    /\ systemPrompt' = prompt
    /\ UNCHANGED <<currentProvider, tools, conversationHistory, messageIdCounter, pc, frame,
                   lastResult, paused, pendingContinueButton, tabVars, trace>>

\* a clearHistory that empties the store and lets the counter run on
clearHistoryKeepsCounter ==
    /\ pc = "idle"
    /\ conversationHistory' = <<>>
    /\ paused' = FALSE
    /\ UNCHANGED <<pendingContinueButton, tabVars>>
    /\ trace' = [NoTrace EXCEPT !.cleared = Len(conversationHistory)]
    /\ UNCHANGED <<currentProvider, tools, systemPrompt, messageIdCounter, pc, frame,
                   lastResult>>

clearHistory ==
    /\ pc = "idle"
    /\ conversationHistory' = <<>>
    /\ messageIdCounter' = 0
    /\ paused' = FALSE
    /\ UNCHANGED <<pendingContinueButton, tabVars>>
    /\ trace' = [NoTrace EXCEPT !.cleared = Len(conversationHistory)]
    /\ UNCHANGED <<currentProvider, tools, systemPrompt, pc, frame, lastResult>>

(***************************************************************************)
(* AIManager.sendMessage, from its entry to the head of the while loop.    *)
(***************************************************************************)
\* the values a caller passes as options.maxIterations: the setting of the
\* chat client is parseInt of what was typed, taken as it is
Budgets == {-1} \cup 1..MaxBudget

Options ==
    [maxIterations : Budgets,
     minimizeTokens : BOOLEAN,
     limitMessages : 0..MaxLimit,
     preAddedUserMessage : BOOLEAN]

\* the outbound list: the view, behind the system prompt if there is one
Outbound(view) ==
    IF systemPrompt # "" /\ (Len(view) = 0 \/ view[1].role # "system")
    THEN <<[role |-> "system", content |-> Str(systemPrompt)]>> \o view
    ELSE view

\* a sendMessage that appends the user message of every ordinary request,
\* pre-added or not
WithUserMessageAlways(ensured, userMessage, options) ==
    IF userMessage # ContinueToken
    THEN addMessage(ensured.history, ensured.counter, "user", Str(userMessage))
    ELSE ensured

\* the store with the user message on it, if sendMessage is to append it
WithUserMessage(ensured, userMessage, options) ==
    IF userMessage # ContinueToken /\ ~options.preAddedUserMessage
    THEN addMessage(ensured.history, ensured.counter, "user", Str(userMessage))
    ELSE ensured

PreparedFrom(added, messages, userMessage, options) ==
    [isContinuation |-> userMessage = ContinueToken,
     appended |-> userMessage # ContinueToken /\ ~options.preAddedUserMessage,
     history |-> added.history,
     counter |-> added.counter,
     messages |-> messages,
     targetIndex |-> IF userMessage = ContinueToken THEN 0
                     ELSE findLatestUserTextMessageIndex(messages)]

PreparedOn(added, userMessage, options) ==
    PreparedFrom(added,
                 Outbound(getHistoryView(Marked(added.history), options.minimizeTokens,
                                         options.limitMessages)),
                 userMessage, options)

\* the part of sendMessage before prompt augmentation
Prepared(userMessage, options) ==
    PreparedOn(WithUserMessage(ensureHistoryMessageIds(conversationHistory, messageIdCounter),
                               userMessage, options),
               userMessage, options)

\* the budget option of a call as it was passed: the maxIterations field of
\* options, when options has one
GivenBudget(options) == [f \in DOMAIN options \cap {"maxIterations"} |-> options[f]]

\* a choice of default that takes the one of the other kind of request
MaxIterationsOfSwapped(options, isContinuation) ==
    IF Has(options, "maxIterations") /\ options.maxIterations # 0 THEN options.maxIterations
    ELSE IF isContinuation THEN DefaultMaxIterations
    ELSE ContinuationMaxIterations

\* options.maxIterations || (isContinuation ? 20 : 10): undefined and 0 are
\* both falsy
MaxIterationsOf(options, isContinuation) ==
    IF Has(options, "maxIterations") /\ options.maxIterations # 0 THEN options.maxIterations
    ELSE IF isContinuation THEN ContinuationMaxIterations
    ELSE DefaultMaxIterations

\* the store has room for what a call with these arguments appends first
HasRoom(userMessage, options, maxStore) ==
    (userMessage # ContinueToken /\ ~options.preAddedUserMessage) =>
        Len(conversationHistory) < maxStore

\* typeof options[field] === 'function': an option is modelled by its typeof
IsFunction(options, field) == Has(options, field) /\ options[field] = "function"

\* a sendMessage that looks for the provider after it has given the store its
\* ids and appended the user message
\* messages[targetIndex].content = augmentedPrompt, for the message of the
\* outbound list the prompt goes to, if there is one
Augmented(p, registry, outcome) ==
    IF p.targetIndex # 0
    THEN [p.messages EXCEPT ![p.targetIndex].content =
             Str(buildAugmentedPrompt(@.text, registry, outcome))]
    ELSE p.messages

sendMessageChecksProviderLast(userMessage, options) ==
    /\ pc = "idle"
    /\ currentProvider = ""
    /\ \E added \in {WithUserMessage(ensureHistoryMessageIds(conversationHistory,
                                                              messageIdCounter),
                                      userMessage, options)} :
          /\ conversationHistory' = added.history
          /\ messageIdCounter' = added.counter
    /\ lastResult' = [status |-> "rejected", error |-> "No AI provider configured"]
    /\ trace' = [NoTrace EXCEPT !.storeAtStart = conversationHistory,
                                !.userMessage = userMessage]
    /\ pc' = "settled"
    /\ paused' = FALSE
    /\ UNCHANGED <<pendingContinueButton, tabVars>>
    /\ UNCHANGED <<currentProvider, tools, systemPrompt, frame>>

\* AIManager.sendMessage from its entry to its first await; what the caller
\* does around the call is the caller's
callSendMessage(userMessage, options) ==
    /\ pc = "idle"
    /\ IF currentProvider = ""
       THEN /\ lastResult' = [status |-> "rejected", error |-> "No AI provider configured"]
            /\ trace' = [NoTrace EXCEPT !.storeAtStart = conversationHistory,
                                        !.userMessage = userMessage,
                                        !.preAdded = options.preAddedUserMessage,
                                        !.given = GivenBudget(options)]
            /\ pc' = "settled"
            /\ UNCHANGED <<conversationHistory, messageIdCounter, frame>>
       ELSE
         \E p \in {Prepared(userMessage, options)} :
         \* the code_summary handler runs only when there is a prompt to augment
         /\ \E outcome \in IF p.targetIndex # 0 /\ HasTool(tools, "code_summary")
                            THEN SummaryOutcomes ELSE {NoOutcome} :
            \E messages \in {Augmented(p, tools, outcome)} :
              /\ frame' = [FrameAtEnd EXCEPT
                             !.isContinuation = p.isContinuation,
                             !.messages = MapSeq(ContentsOf, messages),
                             !.MAX_ITERATIONS = MaxIterationsOf(options, p.isContinuation),
                             !.continueProcessing = TRUE,
                             !.progressCallback = IsFunction(options, "onProgress"),
                             !.prepareRateLimit = IsFunction(options, "prepareRateLimit")]
              /\ trace' = [storeAtStart |-> conversationHistory,
                           userMessage |-> userMessage,
                           appended |-> p.appended,
                           preAdded |-> options.preAddedUserMessage,
                           given |-> GivenBudget(options),
                           budget |-> MaxIterationsOf(options, p.isContinuation),
                           resumes |-> p.isContinuation /\ paused,
                           providerCalls |-> <<>>,
                           handlerCalls |-> IF outcome # NoOutcome
                                            THEN <<[name |-> "code_summary", iteration |-> 0,
                                                    outcome |-> outcome]>>
                                            ELSE <<>>,
                           handlerStarts |-> <<>>,
                           rateLimitCalls |-> <<>>,
                           progressCalls |-> <<>>,
                           hooks |-> {hook \in {"onProgress", "prepareRateLimit"} :
                                        IsFunction(options, hook)},
                           outbound |-> MapSeq(ContentsOf, messages),
                           cleared |-> 0]
              \* a message of the list that is an object of the store is
              \* written in the store too
              /\ conversationHistory' = StoreAfterView(p.history, messages)
         /\ messageIdCounter' = p.counter
         /\ lastResult' = NoResult
         /\ pc' = "loop"
    /\ paused' = FALSE
    /\ UNCHANGED <<currentProvider, tools, systemPrompt, tabVars>>

\* a sendMessage call of a caller that does nothing else in the same step
sendMessage(userMessage, options) ==
    /\ callSendMessage(userMessage, options)
    /\ UNCHANGED pendingContinueButton

(***************************************************************************)
(* The while loop of sendMessage.                                          *)
(***************************************************************************)
ToolUseCount(history) ==
    FoldLeft(LAMBDA n, msg :
                IF msg.role = "assistant" /\ IsArray(msg.content)
                THEN n + Cardinality({ k \in 1..Len(msg.content.parts) :
                                         msg.content.parts[k].type = "tool_use" })
                ELSE n,
             0, history)

\* the id the remote API gives the n-th tool call it has issued since the
\* store was last empty: ids are unique, as those of the remote APIs and
\* crypto.randomUUID() are
ToolId(n) == "t" \o ToString(n)

\* the tool calls of one response: k calls for tools of these names, with
\* fresh ids
ToolCallSeqsOf(asked, issued, n) ==
    UNION { { [i \in 1..k |-> [id |-> ToolId(issued + i), name |-> names[i],
                               arguments |-> [x |-> "hi"]]] :
              names \in [1..k -> asked] } : k \in 1..n }

ToolCallSeqs(issued, n) == ToolCallSeqsOf(ToolNames, issued, n)

\* what parseResponse may hand back, within the room the bounds leave: a
\* store of at most maxStore messages with at most maxToolUses tool calls
ResponsesAsking(asked, history, maxStore, maxToolUses) ==
    LET issued == ToolUseCount(history)
        room == maxToolUses - issued
        maxCalls == IF Len(history) + 2 > maxStore THEN 0
                    ELSE IF room < MaxCalls THEN room ELSE MaxCalls
        texts == IF Len(history) + 1 > maxStore THEN {""} ELSE ProviderTexts
    IN  { [content |-> c, toolCalls |-> <<>>] : c \in texts }
        \cup { [content |-> c, toolCalls |-> tc] :
               c \in ProviderTexts, tc \in ToolCallSeqsOf(asked, issued, maxCalls) }

ResponsesWithin(history, maxStore, maxToolUses) ==
    ResponsesAsking(ToolNames, history, maxStore, maxToolUses)

Responses(history) == ResponsesWithin(history, MaxStore, MaxToolUses)

\* a loop condition that lets one iteration too many through
LoopConditionOffByOne == frame.continueProcessing /\ frame.iterations <= frame.MAX_ITERATIONS

\* while (continueProcessing && iterations < MAX_ITERATIONS)
LoopCondition == frame.continueProcessing /\ frame.iterations < frame.MAX_ITERATIONS

\* ... { iterations++; provider.callAPI(messages, tools, providerOptions) is
\* started
\* the provider call of an iteration: provider.callAPI is called
StartCallAPI(providerCalls) ==
    Append(providerCalls, [settled |-> FALSE, storeLen |-> Len(conversationHistory)])

\* a loop that calls the hook and goes on to the provider without waiting
enterIterationWithoutWaiting ==
    /\ pc = "loop"
    /\ LoopCondition
    /\ frame' = [frame EXCEPT !.iterations = @ + 1]
    /\ trace' = [trace EXCEPT
                    !.rateLimitCalls =
                        IF frame.prepareRateLimit
                        THEN Append(@, [iteration |-> frame.iterations + 1, settled |-> FALSE])
                        ELSE @,
                    !.providerCalls = StartCallAPI(@)]
    /\ pc' = "callAPI"
    /\ UNCHANGED <<currentProvider, tools, conversationHistory, systemPrompt, messageIdCounter,
                   lastResult, paused, pendingContinueButton, tabVars>>

\* the head of the while loop: iterations++, then await prepareRateLimit(messages)
\* if the hook was given, else await provider.callAPI(...)
enterIteration ==
    /\ pc = "loop"
    /\ LoopCondition
    /\ frame' = [frame EXCEPT !.iterations = @ + 1]
    /\ IF frame.prepareRateLimit
       THEN /\ trace' = [trace EXCEPT !.rateLimitCalls =
                            Append(@, [iteration |-> frame.iterations + 1, settled |-> FALSE])]
            /\ pc' = "prepareRateLimit"
       ELSE /\ trace' = [trace EXCEPT !.providerCalls = StartCallAPI(@)]
            /\ pc' = "callAPI"
    /\ UNCHANGED <<currentProvider, tools, conversationHistory, systemPrompt, messageIdCounter,
                   lastResult, paused, pendingContinueButton, tabVars>>

\* the promise of prepareRateLimit settles: a rejection is caught and logged,
\* and either way provider.callAPI is called next
prepareRateLimitSettles(rejected) ==
    /\ pc = "prepareRateLimit"
    /\ trace' = [trace EXCEPT
                    !.rateLimitCalls[Len(trace.rateLimitCalls)] =
                        [iteration |-> @.iteration, settled |-> TRUE, rejected |-> rejected],
                    !.providerCalls = StartCallAPI(@)]
    /\ pc' = "callAPI"
    /\ UNCHANGED <<currentProvider, tools, conversationHistory, systemPrompt, messageIdCounter,
                   lastResult, paused, pendingContinueButton, tabVars, frame>>

\* a failure handler that takes the store back to where the call found it
callAPIFailsRollsBack ==
    /\ pc = "callAPI"
    /\ lastResult' = [status |-> "rejected", error |-> "API Error"]
    /\ trace' = [trace EXCEPT !.providerCalls[Len(trace.providerCalls)] =
                    [settled |-> TRUE, storeLen |-> @.storeLen, failed |-> TRUE]]
    /\ frame' = FrameAtEnd
    /\ pc' = "settled"
    /\ conversationHistory' = trace.storeAtStart
    /\ UNCHANGED <<currentProvider, tools, systemPrompt, messageIdCounter, paused, pendingContinueButton, tabVars>>

\* a failure handler that goes back to the head of the loop for another try
callAPIFailsAndRetries ==
    /\ pc = "callAPI"
    /\ trace' = [trace EXCEPT !.providerCalls[Len(trace.providerCalls)] =
                    [settled |-> TRUE, storeLen |-> @.storeLen, failed |-> TRUE]]
    /\ pc' = "loop"
    /\ UNCHANGED <<currentProvider, tools, conversationHistory, systemPrompt, messageIdCounter,
                   lastResult, paused, pendingContinueButton, tabVars, frame>>

\* callAPI rejects (network failure, !response.ok): sendMessage rejects
callAPIFails ==
    /\ pc = "callAPI"
    /\ lastResult' = [status |-> "rejected", error |-> "API Error"]
    /\ trace' = [trace EXCEPT !.providerCalls[Len(trace.providerCalls)] =
                    [settled |-> TRUE, storeLen |-> @.storeLen, failed |-> TRUE]]
    /\ frame' = FrameAtEnd
    /\ pc' = "settled"
    /\ UNCHANGED <<currentProvider, tools, conversationHistory, systemPrompt, messageIdCounter,
                   paused, pendingContinueButton, tabVars>>

ToolUseBlock(toolCall) ==
    [type |-> "tool_use", id |-> toolCall.id, name |-> toolCall.name, input |-> toolCall.arguments]

\* an assistant message that carries a text block whatever the content
AssistantToolMessageAlwaysText(response) ==
    [role |-> "assistant",
     content |-> Arr(<<[type |-> "text", text |-> response.content]>>
                     \o MapSeq(ToolUseBlock, response.toolCalls))]

\* the assistant message of a response that carries tool calls, before its id
AssistantToolMessage(response) ==
    [role |-> "assistant",
     content |-> Arr((IF response.content # ""
                      THEN <<[type |-> "text", text |-> response.content]>> ELSE <<>>)
                     \o MapSeq(ToolUseBlock, response.toolCalls))]

\* a loop that never reports its progress
ProgressDropped(progressCalls, event) == progressCalls

\* a loop that takes the outbound list anew from the store, abridged, after
\* every message it appends
PushMessageReprojected(messages, message) ==
    Outbound(getHistoryView(Append(conversationHistory, message), TRUE, 0))

\* messages.push(message): the outbound list of the call grows by the message
PushMessage(messages, message) == Append(messages, message)

\* if (progressCallback) { progressCallback(event) }
Progress(progressCalls, event) ==
    IF frame.progressCallback THEN Append(progressCalls, event) ELSE progressCalls

\* callAPI resolves with response
callAPIReturns(response) ==
    /\ pc = "callAPI"
    /\ trace' = [trace EXCEPT
                    !.providerCalls[Len(trace.providerCalls)] =
                        [settled |-> TRUE, storeLen |-> @.storeLen, failed |-> FALSE,
                         response |-> response],
                    !.progressCalls =
                        IF Len(response.toolCalls) = 0 /\ response.content # ""
                        THEN Progress(@, [type |-> "final_assistant_message",
                                          iteration |-> frame.iterations,
                                          messages |-> <<ensureMessageId(
                                              [role |-> "assistant",
                                               content |-> Str(response.content)],
                                              messageIdCounter).message>>])
                        ELSE @]
    /\ IF Len(response.toolCalls) > 0
       THEN LET r == ensureMessageId(AssistantToolMessage(response), messageIdCounter)
                assistantMessage ==
                    SetField(r.message, "metadata",
                             [toolCallIds |-> MapSeq(LAMBDA call : call.id, response.toolCalls)])
            IN  /\ messageIdCounter' = r.counter
                /\ conversationHistory' = Append(conversationHistory, assistantMessage)
                /\ frame' = [frame EXCEPT !.messages = PushMessage(@, assistantMessage),
                                          !.response = response,
                                          !.toolResults = <<>>,
                                          !.callIndex = 0]
                /\ pc' = "executeToolCalls"
       ELSE LET r == ensureMessageId([role |-> "assistant", content |-> Str(response.content)],
                                     messageIdCounter)
            IN  /\ IF response.content # ""
                   THEN /\ messageIdCounter' = r.counter
                        /\ conversationHistory' = Append(conversationHistory, r.message)
                        /\ frame' = [frame EXCEPT
                                       !.continueProcessing = FALSE,
                                       !.finalResponse =
                                           SetField(response, "assistantMessageId", r.message._id)]
                   ELSE /\ UNCHANGED <<messageIdCounter, conversationHistory>>
                        /\ frame' = [frame EXCEPT !.continueProcessing = FALSE,
                                                  !.finalResponse = response]
                /\ pc' = "loop"
    /\ UNCHANGED <<currentProvider, tools, systemPrompt, lastResult, paused, pendingContinueButton, tabVars>>

\* a loop that takes the calls from the last to the first
NextToolCallReversed(toolCalls, done) == toolCalls[Len(toolCalls) - done]

\* for (const toolCall of toolCalls): the call after the first `done` ones
NextToolCall(toolCalls, done) == toolCalls[done + 1]

\* a catch that passes the message on as if it were the handler's value
HandlerResultSwallowsError(toolCall, outcome) ==
    IF outcome.threw
    THEN [id |-> toolCall.id, result |-> [t |-> "string", v |-> outcome.message],
          isError |-> FALSE]
    ELSE [id |-> toolCall.id, result |-> outcome.value, isError |-> FALSE]

\* try { result = await tool.handler(arguments) } catch (error) { ... }
HandlerResult(toolCall, outcome) ==
    IF outcome.threw
    THEN [id |-> toolCall.id, result |-> [t |-> "string", v |-> "Error: " \o outcome.message],
          isError |-> TRUE]
    ELSE [id |-> toolCall.id, result |-> outcome.value, isError |-> FALSE]

\* an else branch that reports the unknown tool as an ordinary result
UnknownToolResultNotAnError(toolCall) ==
    [id |-> toolCall.id, result |-> [t |-> "string", v |-> "Unknown tool: " \o toolCall.name],
     isError |-> FALSE]

\* else { results.push({ id, result: `Unknown tool: ${call.name}`, isError: true }) }
UnknownToolResult(toolCall) ==
    [id |-> toolCall.id, result |-> [t |-> "string", v |-> "Unknown tool: " \o toolCall.name],
     isError |-> TRUE]

\* one pass of the for loop of executeToolCalls: the handler of the next call
\* runs to its end (outcome), or the tool is unknown
executeToolCall ==
    /\ pc = "executeToolCalls"
    /\ frame.callIndex < Len(frame.response.toolCalls)
    /\ LET call == NextToolCall(frame.response.toolCalls, frame.callIndex) IN
       IF HasTool(tools, call.name)
       THEN \E outcome \in HandlerOutcomes(call.arguments) :
              /\ frame' = [frame EXCEPT
                             !.callIndex = @ + 1,
                             !.toolResults = Append(@, HandlerResult(call, outcome))]
              /\ trace' = [trace EXCEPT
                             !.handlerStarts = Append(@, [id |-> call.id,
                                                          iteration |-> frame.iterations]),
                             !.handlerCalls =
                              Append(@, [name |-> call.name, id |-> call.id,
                                         iteration |-> frame.iterations, outcome |-> outcome])]
       ELSE /\ frame' = [frame EXCEPT
                           !.callIndex = @ + 1,
                           !.toolResults = Append(@, UnknownToolResult(call))]
            /\ UNCHANGED trace
    /\ UNCHANGED <<currentProvider, tools, conversationHistory, systemPrompt, messageIdCounter,
                   pc, lastResult, paused, pendingContinueButton, tabVars>>

\* a loop that starts the handler of the next call without waiting for the
\* one before it
HandlerNotAwaited == TRUE

\* const result = await tool.handler(call.arguments): the loop goes on to the
\* next call only when no handler it started is still running
HandlerAwaited == frame.running = {}

\* the place in toolCalls of the call the loop of executeToolCalls is at
CallAt == frame.callIndex + Cardinality(frame.running)

\* tool.handler(call.arguments) is called and returns its promise
startToolHandler ==
    /\ pc = "executeToolCalls"
    /\ HandlerAwaited
    /\ CallAt < Len(frame.response.toolCalls)
    /\ \E call \in {NextToolCall(frame.response.toolCalls, CallAt)} :
          /\ HasTool(tools, call.name)
          /\ frame' = [frame EXCEPT !.running = @ \cup {CallAt + 1}]
          /\ trace' = [trace EXCEPT !.handlerStarts =
                          Append(@, [id |-> call.id, iteration |-> frame.iterations])]
    /\ UNCHANGED <<currentProvider, tools, conversationHistory, systemPrompt, messageIdCounter,
                   pc, lastResult, paused, pendingContinueButton, tabVars>>

\* the promise of the running handler settles (outcome): its result is pushed
endToolHandler ==
    /\ pc = "executeToolCalls"
    /\ frame.running # {}
    /\ \E call \in {NextToolCall(frame.response.toolCalls, frame.callIndex)} :
       \E outcome \in HandlerOutcomes(call.arguments) :
          /\ frame' = [frame EXCEPT
                         !.callIndex = @ + 1,
                         !.running = @ \ {frame.callIndex + 1},
                         !.toolResults = Append(@, HandlerResult(call, outcome))]
          /\ trace' = [trace EXCEPT !.handlerCalls =
                          Append(@, [name |-> call.name, id |-> call.id,
                                     iteration |-> frame.iterations, outcome |-> outcome])]
    /\ UNCHANGED <<currentProvider, tools, conversationHistory, systemPrompt, messageIdCounter,
                   pc, lastResult, paused, pendingContinueButton, tabVars>>

\* the else branch of executeToolCalls: no tool of that name, no handler
unknownToolCall ==
    /\ pc = "executeToolCalls"
    /\ frame.running = {}
    /\ frame.callIndex < Len(frame.response.toolCalls)
    /\ \E call \in {NextToolCall(frame.response.toolCalls, frame.callIndex)} :
          /\ ~HasTool(tools, call.name)
          /\ frame' = [frame EXCEPT
                         !.callIndex = @ + 1,
                         !.toolResults = Append(@, UnknownToolResult(call))]
    /\ UNCHANGED <<currentProvider, tools, conversationHistory, systemPrompt, messageIdCounter,
                   pc, lastResult, paused, pendingContinueButton, tabVars, trace>>

ToolResultBlock(result) ==
    IF result.isError
    THEN [type |-> "tool_result", tool_use_id |-> result.id, content |-> JSString(result.result),
          is_error |-> TRUE]
    ELSE [type |-> "tool_result", tool_use_id |-> result.id, content |-> JSString(result.result)]

\* a result message that leaves the failed calls out
ToolResultMessageWithoutErrors(toolResults) ==
    [role |-> "user",
     content |-> Arr(MapSeq(ToolResultBlock,
                            SelectSeq(toolResults, LAMBDA result : ~result.isError)))]

\* the user message of the results of one iteration, before its id
ToolResultMessage(toolResults) ==
    [role |-> "user", content |-> Arr(MapSeq(ToolResultBlock, toolResults))]

\* a result that carries the calls and results of the latest iteration only
appendToolResultsOfLastIteration ==
    /\ pc = "executeToolCalls"
    /\ frame.callIndex = Len(frame.response.toolCalls)
    /\ LET r == ensureMessageId(ToolResultMessage(frame.toolResults), messageIdCounter)
           toolResultMessage ==
               SetField(r.message, "metadata",
                        [toolCallIds |-> MapSeq(LAMBDA result : result.id, frame.toolResults)])
           assistantMessage == Last(frame.messages)
           toolCallsWithMeta ==
               MapSeq(LAMBDA call : SetField(call, "messageId", assistantMessage._id),
                      frame.response.toolCalls)
           toolResultsWithMeta ==
               MapSeq(LAMBDA result : SetField(result, "messageId", toolResultMessage._id),
                      frame.toolResults)
       IN  /\ messageIdCounter' = r.counter
           /\ conversationHistory' = Append(conversationHistory, toolResultMessage)
           /\ trace' = [trace EXCEPT !.progressCalls =
                           Progress(@, [type |-> "tool_iteration",
                                        iteration |-> frame.iterations,
                                        messages |-> <<assistantMessage, toolResultMessage>>])]
           /\ frame' = [frame EXCEPT
                          !.messages = Append(@, toolResultMessage),
                          !.allToolCalls = toolCallsWithMeta,
                          !.allToolResults = toolResultsWithMeta,
                          !.finalResponse =
                              SetField(SetField(frame.response, "assistantMessageId", assistantMessage._id),
                                       "toolResultMessageId", toolResultMessage._id),
                          !.response = Null,
                          !.toolResults = <<>>,
                          !.callIndex = 0]
    /\ pc' = "loop"
    /\ UNCHANGED <<currentProvider, tools, systemPrompt, lastResult, paused, pendingContinueButton, tabVars>>

\* executeToolCalls has returned: the tool result message is appended and the
\* calls and results of this iteration are added to the totals
appendToolResults ==
    /\ pc = "executeToolCalls"
    /\ frame.callIndex = Len(frame.response.toolCalls)
    /\ LET r == ensureMessageId(ToolResultMessage(frame.toolResults), messageIdCounter)
           toolResultMessage ==
               SetField(r.message, "metadata",
                        [toolCallIds |-> MapSeq(LAMBDA result : result.id, frame.toolResults)])
           assistantMessage == Last(frame.messages)
           toolCallsWithMeta ==
               MapSeq(LAMBDA call : SetField(call, "messageId", assistantMessage._id),
                      frame.response.toolCalls)
           toolResultsWithMeta ==
               MapSeq(LAMBDA result : SetField(result, "messageId", toolResultMessage._id),
                      frame.toolResults)
       IN  /\ messageIdCounter' = r.counter
           /\ conversationHistory' = Append(conversationHistory, toolResultMessage)
           /\ trace' = [trace EXCEPT !.progressCalls =
                           Progress(@, [type |-> "tool_iteration",
                                        iteration |-> frame.iterations,
                                        messages |-> <<assistantMessage, toolResultMessage>>])]
           /\ frame' = [frame EXCEPT
                          !.messages = PushMessage(@, toolResultMessage),
                          !.allToolCalls = @ \o toolCallsWithMeta,
                          !.allToolResults = @ \o toolResultsWithMeta,
                          !.finalResponse =
                              SetField(SetField(frame.response, "assistantMessageId", assistantMessage._id),
                                       "toolResultMessageId", toolResultMessage._id),
                          !.response = Null,
                          !.toolResults = <<>>,
                          !.callIndex = 0]
    /\ pc' = "loop"
    /\ UNCHANGED <<currentProvider, tools, systemPrompt, lastResult, paused, pendingContinueButton, tabVars>>

\* the text of the notice; the code puts a warning sign in front of it
LimitNotice(max) ==
    "Reached tool iteration limit (" \o ToString(max)
    \o " iterations). The task may not be complete. Click \"Continue Tools\" to resume processing."

\* a pause check that forgets to ask whether the provider had finished
HitLimitWhateverTheReply == frame.iterations >= frame.MAX_ITERATIONS

\* if (iterations >= MAX_ITERATIONS && continueProcessing)
HitLimit == frame.iterations >= frame.MAX_ITERATIONS /\ frame.continueProcessing

\* the loop is left: the result is completed and sendMessage resolves
return ==
    /\ pc = "loop"
    /\ ~LoopCondition
    /\ LET hitLimit == HitLimit
           f0 == IF hitLimit /\ frame.finalResponse = Null THEN [content |-> ""]
                 ELSE frame.finalResponse
           f1 == IF hitLimit
                 THEN [needsContinuation |-> TRUE, iterationsUsed |-> frame.iterations,
                       maxIterations |-> frame.MAX_ITERATIONS,
                       content |-> IF f0.content = "" THEN LimitNotice(frame.MAX_ITERATIONS)
                                   ELSE f0.content] @@ f0
                 ELSE f0
           f2 == [allToolCalls |-> frame.allToolCalls, allToolResults |-> frame.allToolResults] @@ f1
       IN  lastResult' = [status |-> "resolved", value |-> f2]
    /\ frame' = FrameAtEnd
    /\ pc' = "settled"
    /\ UNCHANGED <<currentProvider, tools, conversationHistory, systemPrompt, messageIdCounter,
                   paused, pendingContinueButton, tabVars, trace>>

\* the caller's await of sendMessage ends: it has the result (or the error)
\* in hand and the AIManager is ready for the next call
settled ==
    /\ pc = "settled"
    /\ paused' = (lastResult.status = "resolved" /\ Has(lastResult.value, "needsContinuation"))
    /\ UNCHANGED <<pendingContinueButton, tabVars>>
    /\ lastResult' = NoResult
    /\ trace' = NoTrace
    /\ pc' = "idle"
    /\ UNCHANGED <<currentProvider, tools, conversationHistory, systemPrompt, messageIdCounter,
                   frame>>

Next ==
    \/ registerProvider("P")
    \/ \E toolFilters \in [code : BOOLEAN, filesystem : BOOLEAN] :
          registerUniversalTools(toolFilters)
    \/ \E prompt \in SystemPrompts : setSystemPrompt(prompt)
    \/ clearHistory
    \/ \E userMessage \in UserTexts \cup {ContinueToken}, options \in Options :
          HasRoom(userMessage, options, MaxStore) /\ sendMessage(userMessage, options)
    \/ enterIteration
    \/ callAPIFails
    \/ pc = "callAPI" /\ \E response \in Responses(conversationHistory) : callAPIReturns(response)
    \/ executeToolCall
    \/ appendToolResults
    \/ return
    \/ settled

Spec == Init /\ [][Next]_vars

(***************************************************************************)
(* Long exchanges.  The program with no tool registered and a provider     *)
(* that asks for one tool call per response for as long as it likes: an    *)
(* exchange is started on an empty store, or resumes an exchange that      *)
(* paused after its first iterations, and may be called with or without    *)
(* options.maxIterations.  The budget alone ends the exchange, so that the *)
(* default budgets are reached.                                            *)
(***************************************************************************)
\* the longest store of a paused exchange that a continuation resumes
MaxResumeStore == 3

OptionsWithoutBudget ==
    [minimizeTokens : {FALSE}, limitMessages : {0}, preAddedUserMessage : {FALSE}]

\* options with and without the maxIterations field
OptionsAnyBudget ==
    OptionsWithoutBudget
    \cup { [maxIterations |-> m] @@ o : m \in Budgets \cup {0}, o \in OptionsWithoutBudget }

\* a response of the provider: a final text, or one tool call with a fresh id
LongResponses(history) ==
    { [content |-> "done", toolCalls |-> <<>>] }
    \cup { [content |-> "", toolCalls |-> tc] : tc \in ToolCallSeqs(ToolUseCount(history), 1) }

NextLong ==
    \/ registerProvider("P")
    \/ clearHistory
    \/ \E options \in OptionsAnyBudget :
          \/ conversationHistory = <<>> /\ sendMessage("hi", options)
          \/ /\ paused /\ Len(conversationHistory) <= MaxResumeStore
             /\ sendMessage(ContinueToken, options)
    \/ enterIteration
    \/ callAPIFails
    \/ pc = "callAPI" /\ \E response \in LongResponses(conversationHistory) :
                            callAPIReturns(response)
    \/ executeToolCall
    \/ appendToolResults
    \/ return
    \/ settled

SpecLong == Init /\ [][NextLong]_vars

\* SpecLong with the steps of a call in flight never put off for ever: the
\* synchronous steps of sendMessage run as soon as the event loop reaches
\* them, and every provider call and every tool handler ends, by returning
\* or by throwing
callAPISettles ==
    \/ callAPIFails
    \/ pc = "callAPI" /\ \E response \in LongResponses(conversationHistory) :
                            callAPIReturns(response)

SpecLongFair ==
    /\ SpecLong
    /\ WF_vars(enterIteration)
    /\ WF_vars(callAPISettles)
    /\ WF_vars(executeToolCall)
    /\ WF_vars(appendToolResults)
    /\ WF_vars(return)

(***************************************************************************)
(* The stores of the program.  What sendMessage writes to the store does   *)
(* not depend on the list it sends to the provider, and a message of any   *)
(* kind can follow a message of any kind: a user text message starts an    *)
(* exchange wherever the one before stopped, and a continuation request    *)
(* appends the tool rounds and the reply of the provider to whatever is    *)
(* there.  The stores are grown in exchanges of up to three tool rounds,   *)
(* made without a system prompt and with minimizeTokens, limitMessages and *)
(* preAddedUserMessage left at their defaults, with the file system tools  *)
(* registered or not.  The properties of getHistoryView, whatever its      *)
(* arguments, are checked on these stores.                                 *)
(***************************************************************************)
\* the longest store, and the most tool calls in it
MaxViewStore == 6
MaxViewToolUses == 3

OptionsDefaultView ==
    [maxIterations : {MaxViewToolUses},
     minimizeTokens : {FALSE},
     limitMessages : {0},
     preAddedUserMessage : {FALSE}]

NextStores ==
    \/ registerProvider("P")
    \/ \E toolFilters \in [code : {FALSE}, filesystem : BOOLEAN] :
          registerUniversalTools(toolFilters)
    \/ clearHistory
    \/ \E userMessage \in UserTexts \cup {ContinueToken}, options \in OptionsDefaultView :
          HasRoom(userMessage, options, MaxViewStore) /\ sendMessage(userMessage, options)
    \/ enterIteration
    \/ callAPIFails
    \/ pc = "callAPI"
       /\ \E response \in ResponsesWithin(conversationHistory, MaxViewStore, MaxViewToolUses) :
             callAPIReturns(response)
    \/ executeToolCall
    \/ appendToolResults
    \/ return
    \/ settled

SpecStores == Init /\ [][NextStores]_vars

(***************************************************************************)
(* The exchanges with the run of a tool handler in two steps, its start    *)
(* and the settling of its promise, for the properties of the order in     *)
(* which executeToolCalls runs the handlers.                               *)
(***************************************************************************)
NextHandlers ==
    \/ registerProvider("P")
    \/ \E toolFilters \in [code : {FALSE}, filesystem : BOOLEAN] :
          registerUniversalTools(toolFilters)
    \/ clearHistory
    \/ \E userMessage \in UserTexts \cup {ContinueToken}, options \in Options :
          HasRoom(userMessage, options, MaxStore) /\ sendMessage(userMessage, options)
    \/ enterIteration
    \/ callAPIFails
    \/ pc = "callAPI" /\ \E response \in Responses(conversationHistory) : callAPIReturns(response)
    \/ startToolHandler
    \/ endToolHandler
    \/ unknownToolCall
    \/ appendToolResults
    \/ return
    \/ settled

SpecHandlers == Init /\ [][NextHandlers]_vars

(***************************************************************************)
(* The provider adapters: what each of them makes of the body of a         *)
(* success response (parseResponse).  A JSON null is modelled as an absent *)
(* field, which the adapters' tests (x || '', if (x)) treat alike; the     *)
(* texts of the responses hold no <tools> markup.                          *)
(***************************************************************************)
Adapters == {"claude", "openai", "gemini", "ollama"}

\* JSON.stringify and JSON.parse on the arguments of a tool call
JSONStringify(value) == [json |-> value]
JSONParse(text) == text.json

Threw(error) == [threw |-> TRUE, error |-> error]
Returned(value) == [threw |-> FALSE, value |-> value]

\* the bodies the remote API sends for a response, by adapter
ClaudeBody(response) ==
    [content |->
        (IF response.content # "" THEN <<[type |-> "text", text |-> response.content]>> ELSE <<>>)
        \o MapSeq(LAMBDA call : [type |-> "tool_use", id |-> call.id, name |-> call.name,
                                 input |-> call.arguments],
                  response.toolCalls)]

OpenAIBody(response) ==
    [choices |->
        <<[message |->
             (IF response.content # "" THEN [content |-> response.content] ELSE <<>>)
             @@ (IF Len(response.toolCalls) > 0
                 THEN [tool_calls |->
                         MapSeq(LAMBDA call :
                                   [id |-> call.id,
                                    function |-> [name |-> call.name,
                                                  arguments |-> JSONStringify(call.arguments)]],
                                response.toolCalls)]
                 ELSE <<>>)
             @@ [role |-> "assistant"]]>>]

GeminiBody(response) ==
    [candidates |->
        <<[content |->
             [parts |->
                (IF response.content # "" THEN <<[text |-> response.content]>> ELSE <<>>)
                \o MapSeq(LAMBDA call : [functionCall |-> [name |-> call.name,
                                                           args |-> call.arguments]],
                          response.toolCalls)]]>>]

OllamaBody(response) ==
    [message |->
        [role |-> "assistant", content |-> response.content]
        @@ (IF Len(response.toolCalls) > 0
            THEN [tool_calls |->
                    MapSeq(LAMBDA call : [function |-> [name |-> call.name,
                                                        arguments |-> call.arguments]],
                           response.toolCalls)]
            ELSE <<>>)]

\* bodies of success responses that lack the fields the adapter reads
PartialBodies(adapter) ==
    IF adapter = "claude" THEN { [type |-> "error"] }
    ELSE IF adapter = "openai"
    THEN { [object |-> "chat.completion"], [choices |-> <<>>],
           [choices |-> <<[message |-> [role |-> "assistant"]]>>] }
    ELSE IF adapter = "gemini"
    THEN { [promptFeedback |-> "SAFETY"], [candidates |-> <<[finishReason |-> "SAFETY"]>>] }
    ELSE { [done |-> TRUE], [message |-> [role |-> "assistant"]] }

\* what the remote API of the adapter may answer
Bodies(adapter, history) ==
    PartialBodies(adapter)
    \cup { IF adapter = "claude" THEN ClaudeBody(response)
           ELSE IF adapter = "openai" THEN OpenAIBody(response)
           ELSE IF adapter = "gemini" THEN GeminiBody(response)
           ELSE OllamaBody(response) : response \in Responses(history) }

\* ClaudeProvider.parseResponse
parseResponseClaude(response) ==
    IF ~Has(response, "content") THEN Threw("TypeError: response.content is not iterable")
    ELSE Returned(
           [content |-> FoldLeft(LAMBDA text, part : IF part.type = "text" THEN text \o part.text
                                                      ELSE text,
                                 "", response.content),
            toolCalls |-> MapSeq(LAMBDA part : [id |-> part.id, name |-> part.name,
                                                arguments |-> part.input],
                                 SelectSeq(response.content,
                                           LAMBDA part : part.type = "tool_use")),
            raw |-> response])

\* OpenAIProvider.parseResponse
parseResponseOpenAI(response) ==
    IF ~Has(response, "choices") THEN Threw("TypeError: Cannot read properties of undefined")
    ELSE IF Len(response.choices) = 0 \/ ~Has(response.choices[1], "message")
    THEN Threw("TypeError: Cannot read properties of undefined")
    ELSE Returned(
           [content |-> IF Has(response.choices[1].message, "content")
                        THEN response.choices[1].message.content ELSE "",
            toolCalls |-> IF Has(response.choices[1].message, "tool_calls")
                          THEN MapSeq(LAMBDA tc : [id |-> tc.id, name |-> tc.function.name,
                                                   arguments |-> JSONParse(tc.function.arguments)],
                                      response.choices[1].message.tool_calls)
                          ELSE <<>>,
            raw |-> response])

\* GeminiProvider.parseResponse; the ids are crypto.randomUUID(): the next
\* ones after the `issued` ids given out so far
parseResponseGemini(response, issued) ==
    Returned(
      [raw |-> response]
      @@ (IF /\ Has(response, "candidates") /\ Len(response.candidates) > 0
             /\ Has(response.candidates[1], "content")
             /\ Has(response.candidates[1].content, "parts")
          THEN FoldLeft(LAMBDA result, part :
                           IF Has(part, "text") /\ part.text # ""
                           THEN [result EXCEPT !.content = @ \o part.text]
                           ELSE IF Has(part, "functionCall")
                           THEN [result EXCEPT !.toolCalls =
                                    Append(@, [id |-> ToolId(issued + Len(result.toolCalls) + 1),
                                               name |-> part.functionCall.name,
                                               arguments |-> part.functionCall.args])]
                           ELSE result,
                        [content |-> "", toolCalls |-> <<>>],
                        response.candidates[1].content.parts)
          ELSE [content |-> "", toolCalls |-> <<>>]))

\* OllamaProvider.parseResponse
parseResponseOllama(response, issued) ==
    Returned(
      [raw |-> response]
      @@ (IF Has(response, "message")
          THEN [content |-> IF Has(response.message, "content") THEN response.message.content
                            ELSE "",
                toolCalls |->
                    IF Has(response.message, "tool_calls")
                    THEN [k \in 1..Len(response.message.tool_calls) |->
                            [id |-> IF Has(response.message.tool_calls[k], "id")
                                    THEN response.message.tool_calls[k].id
                                    ELSE ToolId(issued + k),
                             name |-> response.message.tool_calls[k].function.name,
                             arguments |-> response.message.tool_calls[k].function.arguments]]
                    ELSE <<>>]
          ELSE [content |-> "", toolCalls |-> <<>>]))

\* provider.parseResponse(data) of the current provider
parseResponse(adapter, response, issued) ==
    IF adapter = "claude" THEN parseResponseClaude(response)
    ELSE IF adapter = "openai" THEN parseResponseOpenAI(response)
    ELSE IF adapter = "gemini" THEN parseResponseGemini(response, issued)
    ELSE parseResponseOllama(response, issued)

\* the content of a message as the wire carries it when it is not taken
\* apart: the string, or JSON.stringify of the array
WireText(content) == IF IsString(content) THEN content.text ELSE JSONStringify(content.parts)

\* ClaudeProvider.formatMessages
formatMessagesClaude(messages) ==
    MapSeq(LAMBDA msg : [role |-> msg.role, content |-> msg.content],
           SelectSeq(messages, LAMBDA msg : msg.role # "system"))

\* the text of the last text block, '' when there is none
LastText(parts) ==
    IF SelectSeq(parts, LAMBDA part : part.type = "text") = <<>> THEN ""
    ELSE Last(SelectSeq(parts, LAMBDA part : part.type = "text")).text

\* the assistant message with array content of the OpenAI and Ollama formats;
\* the input of a tool call goes as a JSON string (OpenAI) or as it is
WireAssistant(msg, asString) ==
    [role |-> "assistant"]
    @@ (IF LastText(msg.content.parts) # ""
        THEN [content |-> LastText(msg.content.parts)]
        ELSE <<>>)
    @@ (IF \E k \in 1..Len(msg.content.parts) : msg.content.parts[k].type = "tool_use"
        THEN [tool_calls |->
                MapSeq(LAMBDA part : [id |-> part.id, type |-> "function",
                                      function |-> [name |-> part.name,
                                                    arguments |->
                                                        IF asString
                                                        THEN JSONStringify(part.input)
                                                        ELSE part.input]],
                       SelectSeq(msg.content.parts, LAMBDA part : part.type = "tool_use"))]
        ELSE <<>>)

\* the tool messages of a user message with array content
WireToolMessages(msg) ==
    MapSeq(LAMBDA part : [role |-> "tool", content |-> part.content,
                          tool_call_id |-> part.tool_use_id],
           SelectSeq(msg.content.parts, LAMBDA part : part.type = "tool_result"))

\* OpenAIProvider.formatMessages
formatMessagesOpenAI(messages, isO1Model) ==
    FoldLeft(LAMBDA formatted, msg :
                IF msg.role = "user" /\ IsArray(msg.content)
                THEN formatted \o WireToolMessages(msg)
                ELSE IF msg.role = "assistant" /\ IsArray(msg.content)
                THEN Append(formatted, WireAssistant(msg, TRUE))
                ELSE IF msg.role = "system" /\ isO1Model
                THEN Append(formatted, [role |-> "user",
                                        content |-> "System instructions: " \o msg.content.text])
                ELSE Append(formatted, [role |-> msg.role, content |-> WireText(msg.content)]),
             <<>>, messages)

\* GeminiProvider.formatMessages
formatMessagesGemini(messages) ==
    FoldLeft(LAMBDA contents, msg :
                IF msg.role = "user"
                THEN Append(contents,
                        [role |-> "user",
                         parts |-> IF IsArray(msg.content)
                                   THEN MapSeq(LAMBDA c :
                                           IF c.type = "tool_result"
                                           THEN [functionResponse |->
                                                   [name |-> IF Has(c, "tool_name")
                                                             THEN c.tool_name ELSE "unknown",
                                                    response |-> [content |-> c.content]]]
                                           ELSE [text |-> c.content],
                                           msg.content.parts)
                                   ELSE <<[text |-> msg.content.text]>>])
                ELSE IF msg.role = "assistant"
                THEN Append(contents,
                        [role |-> "model",
                         parts |-> IF IsArray(msg.content)
                                   THEN MapSeq(LAMBDA c :
                                           IF c.type = "text" THEN [text |-> c.text]
                                           ELSE [functionCall |-> [name |-> c.name,
                                                                   args |-> c.input]],
                                           SelectSeq(msg.content.parts,
                                                     LAMBDA c : c.type \in {"text", "tool_use"}))
                                   ELSE <<[text |-> msg.content.text]>>])
                ELSE IF msg.role = "system"
                THEN Append(contents, [role |-> "user",
                                       parts |-> <<[text |-> "System: " \o msg.content.text]>>])
                ELSE contents,
             <<>>, messages)

\* OllamaProvider.formatMessages
formatMessagesOllama(messages) ==
    FoldLeft(LAMBDA formatted, msg :
                IF msg.role = "user" /\ IsArray(msg.content)
                THEN formatted \o WireToolMessages(msg)
                ELSE IF msg.role = "assistant" /\ IsArray(msg.content)
                THEN Append(formatted, WireAssistant(msg, FALSE))
                ELSE Append(formatted, [role |-> msg.role, content |-> WireText(msg.content)]),
             <<>>, messages)

\* provider.formatMessages(messages) of the current provider
formatMessages(adapter, messages, isO1Model) ==
    IF adapter = "claude" THEN formatMessagesClaude(messages)
    ELSE IF adapter = "openai" THEN formatMessagesOpenAI(messages, isO1Model)
    ELSE IF adapter = "gemini" THEN formatMessagesGemini(messages)
    ELSE formatMessagesOllama(messages)

\* parseResponse throws inside callAPI: callAPI rejects, and so does sendMessage
parseResponseThrows(error, body) ==
    /\ pc = "callAPI"
    /\ lastResult' = [status |-> "rejected", error |-> error]
    /\ trace' = [trace EXCEPT !.providerCalls[Len(trace.providerCalls)] =
                    [settled |-> TRUE, storeLen |-> @.storeLen, failed |-> TRUE,
                     raw |-> body]]
    /\ frame' = FrameAtEnd
    /\ pc' = "settled"
    /\ UNCHANGED <<currentProvider, tools, conversationHistory, systemPrompt, messageIdCounter,
                   paused, pendingContinueButton, tabVars>>

\* response.ok: the body is read and handed to parseResponse
callAPIReceives(body) ==
    /\ pc = "callAPI"
    /\ \E parsed \in {parseResponse(currentProvider, body, ToolUseCount(conversationHistory))} :
          IF parsed.threw THEN parseResponseThrows(parsed.error, body)
          ELSE callAPIReturns(parsed.value)

OptionsOfAdapters ==
    [maxIterations : 1..MaxBudget,
     minimizeTokens : BOOLEAN,
     limitMessages : {0},
     preAddedUserMessage : {FALSE}]

NextAdapters ==
    \/ \E name \in Adapters : registerProvider(name)
    \/ \E toolFilters \in [code : {FALSE}, filesystem : BOOLEAN] :
          registerUniversalTools(toolFilters)
    \/ \E prompt \in SystemPrompts : setSystemPrompt(prompt)
    \/ clearHistory
    \/ \E userMessage \in UserTexts \cup {ContinueToken}, options \in OptionsOfAdapters :
          HasRoom(userMessage, options, MaxStore) /\ sendMessage(userMessage, options)
    \/ enterIteration
    \/ callAPIFails
    \/ \E body \in Bodies(currentProvider, conversationHistory) : callAPIReceives(body)
    \/ executeToolCall
    \/ appendToolResults
    \/ return
    \/ settled

SpecAdapters == Init /\ [][NextAdapters]_vars

(***************************************************************************)
(* The chat client as the caller: ChatClient.sendMessage and the continue  *)
(* button await sendMessage and hand the result to processUnifiedResponse, *)
(* which reaches into the list that getHistory returns; a saved chat is    *)
(* restored by assigning the store.                                        *)
(***************************************************************************)
MaxChatStore == 5
MaxChatToolUses == 2

\* the values of the model selector of the chat window
Models == {"m1", "m2"}

\* the entry processUnifiedResponse attaches the metadata to: the last
\* assistant message whose content is a string, or an array without metadata
EntryToMark(history) ==
    LET hits == { i \in 1..Len(history) :
                    /\ history[i].role = "assistant"
                    /\ \/ IsString(history[i].content)
                       \/ IsArray(history[i].content) /\ ~Has(history[i], "metadata") }
    IN  IF hits = {} THEN 0 ELSE MaxOf(hits)

\* the end of processUnifiedResponse: entry.metadata = metadata on the list
\* that getHistory returned, which is the store itself
AttachMetadata(history, metadata) ==
    IF EntryToMark(history) = 0 THEN history
    ELSE [history EXCEPT ![EntryToMark(history)] = SetField(@, "metadata", metadata)]

\* a getHistory that hands out a copy: the metadata goes to the copy
AttachMetadataToCopy(history, metadata) == history

\* ChatClient.showContinueToolsButton(iterationsUsed, maxIterations): the
\* button that is pending afterwards
showContinueToolsButton(iterationsUsed, maxIterations) ==
    [iterationsUsed |-> iterationsUsed, maxIterations |-> maxIterations]

\* the button after the await of sendMessage has ended with the result:
\* processUnifiedResponse shows one if response.needsContinuation, and
\* neither it nor the catch block touches the one there is
ButtonAfterResponse(result, button) ==
    IF result.status = "resolved" /\ Has(result.value, "needsContinuation")
    THEN showContinueToolsButton(result.value.iterationsUsed, result.value.maxIterations)
    ELSE button

\* the await of sendMessage in the chat client ends: the result goes to
\* processUnifiedResponse, an error to the catch block
processUnifiedResponse(model) ==
    /\ pc = "settled"
    /\ conversationHistory' =
          IF lastResult.status = "resolved" /\ lastResult.value.content # ""
          THEN AttachMetadata(conversationHistory,
                              [provider |-> currentProvider, model |-> model])
          ELSE conversationHistory
    /\ paused' = (lastResult.status = "resolved" /\ Has(lastResult.value, "needsContinuation"))
    /\ pendingContinueButton' = ButtonAfterResponse(lastResult, pendingContinueButton)
    /\ lastResult' = NoResult
    /\ trace' = NoTrace
    /\ pc' = "idle"
    /\ UNCHANGED <<currentProvider, tools, systemPrompt, messageIdCounter, frame, tabVars>>

\* the chats a file may hold: none, and one exchange, as the program saved
\* it, as a version without message ids saved it, and with the id of the
\* question taken out by hand and the reply numbered 1
SavedChats ==
    { <<>>,
      << [role |-> "user", content |-> Str("hi"), _id |-> 1],
         [role |-> "assistant", content |-> Str("done"), _id |-> 2,
          metadata |-> [provider |-> "P", model |-> "m1"]] >>,
      << [role |-> "user", content |-> Str("hi")],
         [role |-> "assistant", content |-> Str("done")] >>,
      << [role |-> "user", content |-> Str("hi")],
         [role |-> "assistant", content |-> Str("done"), _id |-> 1] >> }

\* autoLoadChatHistory / importChatHistory: clearHistory(), then the store is
\* assigned the copies of the saved messages
restoreChat(saved) ==
    /\ pc = "idle"
    /\ conversationHistory' = MapSeq(cloneMessage, saved)
    /\ messageIdCounter' = 0
    /\ paused' = FALSE
    /\ pendingContinueButton' = Null
    /\ trace' = [NoTrace EXCEPT !.cleared = Len(conversationHistory)]
    /\ UNCHANGED <<currentProvider, tools, systemPrompt, pc, frame, lastResult, tabVars>>

\* the import of a project archive that holds $chat_history.json:
\* clearHistory(), then the store is assigned a list of the parsed messages
\* themselves; the chat client's pending button is not touched
importChatHistory(saved) ==
    /\ pc = "idle"
    /\ conversationHistory' = saved
    /\ messageIdCounter' = 0
    /\ paused' = FALSE
    /\ trace' = [NoTrace EXCEPT !.cleared = Len(conversationHistory)]
    /\ UNCHANGED <<currentProvider, tools, systemPrompt, pc, frame, lastResult,
                   pendingContinueButton, tabVars>>

\* ChatClient.clearChat(): the window and the pending button are dropped and
\* the AIManager's history is cleared
clearChat ==
    /\ pc = "idle"
    /\ conversationHistory' = <<>>
    /\ messageIdCounter' = 0
    /\ paused' = FALSE
    /\ pendingContinueButton' = Null
    /\ trace' = [NoTrace EXCEPT !.cleared = Len(conversationHistory)]
    /\ UNCHANGED <<currentProvider, tools, systemPrompt, pc, frame, lastResult, tabVars>>

\* maxIterations of the sendMessage call of the continue button
ContinueButtonIterations == 20

\* continueBtn.onclick: the button is taken away and sendMessage is called
\* with the continuation token
continueBtnClick(options) ==
    /\ pendingContinueButton # Null
    /\ pendingContinueButton' = Null
    /\ callSendMessage(ContinueToken,
                       [options EXCEPT !.maxIterations = ContinueButtonIterations])

\* the options the chat client passes: its settings
OptionsOfChat ==
    [maxIterations : 1..MaxBudget,
     minimizeTokens : BOOLEAN,
     limitMessages : {0},
     preAddedUserMessage : {FALSE}]

NextChat ==
    \/ registerProvider("P")
    \/ \E toolFilters \in [code : {FALSE}, filesystem : BOOLEAN] :
          registerUniversalTools(toolFilters)
    \/ clearChat
    \/ \E saved \in SavedChats : restoreChat(saved)
    \/ \E saved \in SavedChats : importChatHistory(saved)
    \/ \E userMessage \in UserTexts, options \in OptionsOfChat :
          HasRoom(userMessage, options, MaxChatStore) /\ sendMessage(userMessage, options)
    \/ \E options \in OptionsOfChat : continueBtnClick(options)
    \/ enterIteration
    \/ callAPIFails
    \/ pc = "callAPI"
       /\ \E response \in ResponsesWithin(conversationHistory, MaxChatStore, MaxChatToolUses) :
             callAPIReturns(response)
    \/ executeToolCall
    \/ appendToolResults
    \/ return
    \/ \E model \in Models : processUnifiedResponse(model)

SpecChat == Init /\ [][NextChat]_vars

(***************************************************************************)
(* The registry under direct calls of AIManager.registerTool and           *)
(* registerTools, besides the chat client's registerUniversalTools.        *)
(***************************************************************************)
MaxRegistry == 3

\* the names of the tools a caller may register
RegisteredNames == { allToolDefinitions[i].name : i \in 1..Len(allToolDefinitions) }

\* AIManager.registerTools(tools): registerTool for each, in order
registerTools(registry, names) == FoldLeft(registerTool, registry, names)

\* a call of registerTools by the caller; a call with one tool stands for
\* registerTool
callRegisterTools(names) ==
    /\ pc = "idle"
    /\ Len(tools) + Len(names) <= MaxRegistry
    /\ tools' = registerTools(tools, names)
    /\ UNCHANGED <<currentProvider, conversationHistory, systemPrompt, messageIdCounter, pc,
                   frame, lastResult, paused, pendingContinueButton, tabVars, trace>>

OptionsOfRegistry ==
    [maxIterations : {MaxBudget},
     minimizeTokens : {FALSE},
     limitMessages : {0},
     preAddedUserMessage : {FALSE}]

NextRegistry ==
    \/ registerProvider("P")
    \/ \E toolFilters \in [code : BOOLEAN, filesystem : BOOLEAN] :
          registerUniversalTools(toolFilters)
    \/ \E names \in UNION { [1..n -> RegisteredNames] : n \in 1..2 } : callRegisterTools(names)
    \/ clearHistory
    \/ \E userMessage \in UserTexts \cup {ContinueToken}, options \in OptionsOfRegistry :
          HasRoom(userMessage, options, MaxStore) /\ sendMessage(userMessage, options)
    \/ enterIteration
    \/ callAPIFails
    \/ pc = "callAPI" /\ \E response \in Responses(conversationHistory) : callAPIReturns(response)
    \/ executeToolCall
    \/ appendToolResults
    \/ return
    \/ settled

SpecRegistry == Init /\ [][NextRegistry]_vars

(***************************************************************************)
(* The hooks of sendMessage.  No caller of this repository passes          *)
(* options.onProgress or options.prepareRateLimit; the program here is     *)
(* sendMessage called with each of them a function or left out.  The       *)
(* promise of prepareRateLimit resolves or rejects; onProgress returns.    *)
(***************************************************************************)
\* typeof options.onProgress and typeof options.prepareRateLimit
TypesOfHook == {"function", "undefined"}

OptionsOfHooks ==
    [maxIterations : 1..MaxBudget,
     minimizeTokens : {FALSE},
     limitMessages : {0},
     preAddedUserMessage : {FALSE},
     onProgress : TypesOfHook,
     prepareRateLimit : TypesOfHook]

NextHooks ==
    \/ registerProvider("P")
    \/ \E toolFilters \in [code : {FALSE}, filesystem : BOOLEAN] :
          registerUniversalTools(toolFilters)
    \/ clearHistory
    \/ \E userMessage \in UserTexts \cup {ContinueToken}, options \in OptionsOfHooks :
          HasRoom(userMessage, options, MaxStore) /\ sendMessage(userMessage, options)
    \/ enterIteration
    \/ \E rejected \in BOOLEAN : prepareRateLimitSettles(rejected)
    \/ callAPIFails
    \/ pc = "callAPI" /\ \E response \in Responses(conversationHistory) : callAPIReturns(response)
    \/ executeToolCall
    \/ appendToolResults
    \/ return
    \/ settled

SpecHooks == Init /\ [][NextHooks]_vars

(***************************************************************************)
(* Overlapping calls.  ChatClient.sendMessage is run by the send button    *)
(* and the Enter key whenever the input holds a text, also while an        *)
(* earlier call waits for its provider or for a tool handler: it calls     *)
(* AIManager.sendMessage on the same store.  pc and frame are the earlier  *)
(* call; frame.overlapping holds the locals of the later one.  At most two *)
(* calls are in flight at once, and the provider answers the later call    *)
(* with a text and no tool call.                                           *)
(***************************************************************************)
\* the earlier call is suspended at an await that lets the event loop run:
\* the fetch of callAPI, or a tool handler at work
SuspendedAtAwait ==
    \/ pc = "callAPI"
    \/ pc = "executeToolCalls" /\ frame.running # {}

\* a ChatClient.sendMessage that sends nothing while a call is in flight
sendMessageWhileBusyIgnored(userMessage, options) ==
    /\ SuspendedAtAwait
    /\ frame.overlapping.pc = "none"
    /\ frame' = [frame EXCEPT !.overlapping = [pc |-> "ignored"]]
    /\ UNCHANGED <<currentProvider, tools, conversationHistory, systemPrompt, messageIdCounter,
                   pc, lastResult, paused, pendingContinueButton, tabVars, trace>>

\* the send button or the Enter key while a call is in flight: sendMessage
\* runs up to its await of provider.callAPI
sendMessageWhileBusy(userMessage, options) ==
    /\ SuspendedAtAwait
    /\ frame.overlapping.pc = "none"
    /\ currentProvider # ""
    /\ \E p \in {Prepared(userMessage, options)} :
       \E outcome \in IF p.targetIndex # 0 /\ HasTool(tools, "code_summary")
                       THEN SummaryOutcomes ELSE {NoOutcome} :
       \E messages \in {Augmented(p, tools, outcome)} :
          /\ conversationHistory' = StoreAfterView(p.history, messages)
          /\ messageIdCounter' = p.counter
          /\ frame' = [frame EXCEPT !.overlapping =
                          [pc |-> "callAPI", userMessage |-> userMessage,
                           messages |-> MapSeq(ContentsOf, messages), iterations |-> 1]]
    /\ UNCHANGED <<currentProvider, tools, systemPrompt, pc, lastResult, paused, pendingContinueButton, tabVars, trace>>

\* the provider call of the later call rejects: the later call rejects
overlappingCallAPIFails ==
    /\ frame.overlapping.pc = "callAPI"
    /\ frame' = [frame EXCEPT !.overlapping = NoOverlap]
    /\ UNCHANGED <<currentProvider, tools, conversationHistory, systemPrompt, messageIdCounter,
                   pc, lastResult, paused, pendingContinueButton, tabVars, trace>>

\* the texts the provider answers the later call with, within the room the
\* bounds leave
OverlappingTexts(history) ==
    IF Len(history) + 1 > MaxStore THEN {""} ELSE ProviderTexts

\* the provider call of the later call resolves with a text and no tool
\* call: the final branch of the loop, and the later call resolves
overlappingCallAPIReturns(content) ==
    /\ frame.overlapping.pc = "callAPI"
    /\ frame' = [frame EXCEPT !.overlapping = NoOverlap]
    /\ IF content # ""
       THEN \E r \in {ensureMessageId([role |-> "assistant", content |-> Str(content)],
                                       messageIdCounter)} :
              /\ messageIdCounter' = r.counter
              /\ conversationHistory' = Append(conversationHistory, r.message)
       ELSE UNCHANGED <<messageIdCounter, conversationHistory>>
    /\ UNCHANGED <<currentProvider, tools, systemPrompt, pc, lastResult, paused, pendingContinueButton, tabVars, trace>>

OptionsOfOverlap ==
    [maxIterations : {MaxBudget},
     minimizeTokens : BOOLEAN,
     limitMessages : {0},
     preAddedUserMessage : {FALSE}]

NextOverlap ==
    \/ registerProvider("P")
    \/ \E toolFilters \in [code : {FALSE}, filesystem : {TRUE}] :
          registerUniversalTools(toolFilters)
    \/ clearHistory
    \/ \E userMessage \in UserTexts, options \in OptionsOfOverlap :
          /\ HasRoom(userMessage, options, MaxStore)
          /\ \/ sendMessage(userMessage, options)
             \/ sendMessageWhileBusy(userMessage, options)
    \/ enterIteration
    \/ callAPIFails
    \/ pc = "callAPI" /\ \E response \in Responses(conversationHistory) : callAPIReturns(response)
    \/ startToolHandler
    \/ endToolHandler
    \/ unknownToolCall
    \/ appendToolResults
    \/ return
    \/ settled
    \/ overlappingCallAPIFails
    \/ \E content \in OverlappingTexts(conversationHistory) : overlappingCallAPIReturns(content)

SpecOverlap == Init /\ [][NextOverlap]_vars

(***************************************************************************)
(* Tools that are not there.  The program with a provider that asks for    *)
(* the registered tool and for a tool no one registered, in any mix within *)
(* one response.                                                           *)
(***************************************************************************)
\* the names the provider asks for: "nope" is the name of no tool
NamesAsked == ToolNames \cup {"nope"}

OptionsOfTools ==
    [maxIterations : 1..MaxBudget,
     minimizeTokens : {FALSE},
     limitMessages : {0},
     preAddedUserMessage : {FALSE}]

NextTools ==
    \/ registerProvider("P")
    \/ \E toolFilters \in [code : {FALSE}, filesystem : BOOLEAN] :
          registerUniversalTools(toolFilters)
    \/ clearHistory
    \/ \E userMessage \in UserTexts \cup {ContinueToken}, options \in OptionsOfTools :
          HasRoom(userMessage, options, MaxStore) /\ sendMessage(userMessage, options)
    \/ enterIteration
    \/ callAPIFails
    \/ pc = "callAPI"
       /\ \E response \in ResponsesAsking(NamesAsked, conversationHistory, MaxStore, MaxToolUses) :
             callAPIReturns(response)
    \/ executeToolCall
    \/ appendToolResults
    \/ return
    \/ settled

SpecTools == Init /\ [][NextTools]_vars

(***************************************************************************)
(* The outbound list over several requests.  Stores long enough for a call *)
(* that starts behind two earlier tool rounds and runs a tool round of its *)
(* own, with and without options.minimizeTokens and a system prompt.       *)
(***************************************************************************)
MaxOutboundStore == 7
MaxOutboundToolUses == 3

OptionsOfOutbound ==
    [maxIterations : 1..MaxBudget,
     minimizeTokens : BOOLEAN,
     limitMessages : {0},
     preAddedUserMessage : {FALSE}]

\* the provider asks for one tool at a time, or answers with a text or none
OutboundResponses(history) ==
    { response \in ResponsesWithin(history, MaxOutboundStore, MaxOutboundToolUses) :
        Len(response.toolCalls) <= 1 /\ (Len(response.toolCalls) = 1 => response.content = "") }

NextOutbound ==
    \/ registerProvider("P")
    \/ \E prompt \in SystemPrompts : setSystemPrompt(prompt)
    \/ \E userMessage \in UserTexts \cup {ContinueToken}, options \in OptionsOfOutbound :
          HasRoom(userMessage, options, MaxOutboundStore) /\ sendMessage(userMessage, options)
    \/ enterIteration
    \/ callAPIFails
    \/ pc = "callAPI"
       /\ \E response \in OutboundResponses(conversationHistory) : callAPIReturns(response)
    \/ executeToolCall
    \/ appendToolResults
    \/ return
    \/ settled

SpecOutbound == Init /\ [][NextOutbound]_vars

(***************************************************************************)
(* The editor tabs.  TabManager keeps the open file tabs in an array; a    *)
(* closeTab of a tab with unsaved changes is suspended in the save dialog  *)
(* and, if the user saves, in saveFile, while the tool handlers of the AI  *)
(* and the file browser go on closing tabs.                                *)
(***************************************************************************)
\* the tabs opened in one run, and the calls suspended at one time
MaxTabs == 3
MaxSuspended == 2

\* the state of the chat, which the editor tabs leave alone
chatVars == <<currentProvider, tools, conversationHistory, systemPrompt, messageIdCounter,
              pc, frame, lastResult, paused, trace, pendingContinueButton>>

\* paths, as their segments: /a.js, /d/b.js and /d/c.js are files, /d a folder
FilePaths == { <<"a.js">>, <<"d", "b.js">>, <<"d", "c.js">> }
DeletedPaths == FilePaths \cup { <<"d">> }

\* tab.path === path || tab.path.startsWith(path + '/')
IsAtOrUnder(tabPath, path) ==
    /\ Len(path) <= Len(tabPath)
    /\ \A k \in 1..Len(path) : tabPath[k] = path[k]

\* 'tab-' + Date.now(), for the n-th tab that is opened
TabId(n) == "tab-" \o ToString(n)

\* this.tabs.findIndex(t => t.id === tabId), from 0; -1 if there is none
findIndex(tabList, tabId) ==
    IF \E k \in 1..Len(tabList) : tabList[k].id = tabId
    THEN (CHOOSE k \in 1..Len(tabList) :
             /\ tabList[k].id = tabId
             /\ \A j \in 1..(k - 1) : tabList[j].id # tabId) - 1
    ELSE -1

\* tabs.splice(index, 1): the array afterwards
splice(tabList, index) ==
    IF index < Len(tabList)
    THEN [k \in 1..(Len(tabList) - 1) |-> IF k <= index THEN tabList[k] ELSE tabList[k + 1]]
    ELSE tabList

OpenIds(tabList) == { tabList[k].id : k \in 1..Len(tabList) }

\* history: no closeTab has come to its end yet
NoClose == [tabId |-> "none"]

\* the end of closeTab, from "Remove from arrays": the tab at the index
\* that was found when the call began is spliced out, the session, the dirty
\* mark and the tab element of tabId are removed, and another tab is
\* activated if there is no tab left or tabId was the active one
removeTab(tm, index, tabId, tabsAtCall) ==
    LET left == splice(tm.tabs, index)
    IN  [tm EXCEPT
           !.tabs = left,
           !.sessions = @ \ {tabId},
           !.dirtyFiles = @ \ {tabId},
           !.tabElements = @ \ {tabId},
           !.activeTab = IF Len(left) = 0 THEN "chat"
                         ELSE IF tm.activeTab = tabId THEN left[Len(left)].id
                         ELSE @,
           !.lastClose =
              [tabId |-> tabId,
               overtaken |-> ~(OpenIds(tabsAtCall) \subseteq OpenIds(tm.tabs)),
               removed |-> OpenIds(tm.tabs) \ OpenIds(left),
               activeBefore |-> tm.activeTab \in {"chat"} \cup OpenIds(tm.tabs),
               activeAfter |->
                  (IF Len(left) = 0 THEN "chat"
                   ELSE IF tm.activeTab = tabId THEN left[Len(left)].id
                   ELSE tm.activeTab) \in {"chat"} \cup OpenIds(left)]]

\* closeTab(tabId, true), and closeTab(tabId) of a tab without unsaved
\* changes: no await is reached, the call runs to its end at once
closeTabAtOnce(tm, tabId) ==
    IF findIndex(tm.tabs, tabId) = -1 THEN tm
    ELSE removeTab(tm, findIndex(tm.tabs, tabId), tabId, tm.tabs)

\* the save dialog is on the screen: its overlay covers the window
DialogOpen == \E k \in 1..Len(suspended) : suspended[k].at = "showSaveDialog"

\* the list without its k-th element
Without(calls, k) == [j \in 1..(Len(calls) - 1) |-> IF j < k THEN calls[j] ELSE calls[j + 1]]

\* openFile(path), up to its await of getFile
openFile(path) ==
    /\ ~DialogOpen
    /\ IF \E k \in 1..Len(tabManager.tabs) : tabManager.tabs[k].path = path
       THEN /\ tabManager' =
                  [tabManager EXCEPT !.activeTab =
                      tabManager.tabs[CHOOSE k \in 1..Len(tabManager.tabs) :
                                         /\ tabManager.tabs[k].path = path
                                         /\ \A j \in 1..(k - 1) :
                                               tabManager.tabs[j].path # path].id]
            /\ UNCHANGED suspended
       ELSE /\ Len(suspended) < MaxSuspended
            /\ suspended' = Append(suspended, [at |-> "getFile", path |-> path])
            /\ UNCHANGED tabManager
    /\ UNCHANGED chatVars

\* getFile has returned the file: the tab is pushed, its element and session
\* are made and it is activated
getFileReturns(k) ==
    /\ suspended[k].at = "getFile"
    /\ tabManager.opened < MaxTabs
    /\ tabManager' =
          [tabManager EXCEPT
             !.opened = @ + 1,
             !.tabs = Append(@, [id |-> TabId(tabManager.opened + 1),
                                 path |-> suspended[k].path]),
             !.tabElements = @ \cup {TabId(tabManager.opened + 1)},
             !.sessions = @ \cup {TabId(tabManager.opened + 1)},
             !.activeTab = TabId(tabManager.opened + 1)]
    /\ suspended' = Without(suspended, k)
    /\ UNCHANGED chatVars

\* getFile has returned no file: openFile returns
getFileFindsNothing(k) ==
    /\ suspended[k].at = "getFile"
    /\ suspended' = Without(suspended, k)
    /\ UNCHANGED <<chatVars, tabManager>>

\* a click on a tab element, or on the chat tab
activateTab(tabId) ==
    /\ ~DialogOpen
    /\ tabId \in tabManager.tabElements \cup {"chat"}
    /\ tabManager' = [tabManager EXCEPT !.activeTab = tabId]
    /\ UNCHANGED <<chatVars, suspended>>

\* the user types in the editor: the session of the active tab changes
markDirty ==
    /\ ~DialogOpen
    /\ tabManager.activeTab \in tabManager.sessions
    /\ tabManager' = [tabManager EXCEPT !.dirtyFiles = @ \cup {tabManager.activeTab}]
    /\ UNCHANGED <<chatVars, suspended>>

\* a click on the close button of a tab element: closeTab(tabId), up to its
\* await of the save dialog if the tab has unsaved changes
closeTab(tabId) ==
    /\ ~DialogOpen
    /\ tabId \in tabManager.tabElements
    /\ IF findIndex(tabManager.tabs, tabId) # -1 /\ tabId \in tabManager.dirtyFiles
       THEN /\ Len(suspended) < MaxSuspended
            /\ suspended' = Append(suspended,
                                   [at |-> "showSaveDialog", tabId |-> tabId,
                                    index |-> findIndex(tabManager.tabs, tabId),
                                    tabsAtCall |-> tabManager.tabs])
            /\ UNCHANGED tabManager
       ELSE /\ tabManager' = closeTabAtOnce(tabManager, tabId)
            /\ UNCHANGED suspended
    /\ UNCHANGED chatVars

\* the user answers the save dialog
showSaveDialogResolves(k, result) ==
    /\ suspended[k].at = "showSaveDialog"
    /\ IF result = "cancel"
       THEN /\ suspended' = Without(suspended, k)
            /\ UNCHANGED tabManager
       ELSE IF result = "save"
               /\ findIndex(tabManager.tabs, suspended[k].tabId) # -1
               /\ suspended[k].tabId \in tabManager.sessions
       THEN \* saveFile awaits fileSystem.saveFile
            /\ suspended' = [suspended EXCEPT ![k].at = "saveFile"]
            /\ UNCHANGED tabManager
       ELSE \* 'discard', or a saveFile that finds no tab or no session
            /\ tabManager' = removeTab(tabManager, suspended[k].index, suspended[k].tabId,
                                       suspended[k].tabsAtCall)
            /\ suspended' = Without(suspended, k)
    /\ UNCHANGED chatVars

\* fileSystem.saveFile has written the file: markClean, and closeTab goes on
saveFileReturns(k) ==
    /\ suspended[k].at = "saveFile"
    /\ tabManager' = removeTab([tabManager EXCEPT !.dirtyFiles = @ \ {suspended[k].tabId}],
                               suspended[k].index, suspended[k].tabId,
                               suspended[k].tabsAtCall)
    /\ suspended' = Without(suspended, k)
    /\ UNCHANGED chatVars

\* fileSystem.saveFile has failed: closeTab ends with the error
saveFileFails(k) ==
    /\ suspended[k].at = "saveFile"
    /\ suspended' = Without(suspended, k)
    /\ UNCHANGED <<chatVars, tabManager>>

\* the tabs closeTabsForPath(path) is to close
tabsToClose(tabList, path) ==
    SelectSeq(tabList, LAMBDA tab : IsAtOrUnder(tab.path, path))

\* closeTabsForPath(path), called by a tool handler or the file browser: the
\* first closeTab(tab.id, true) is made at once, the others after an await
\* each
closeTabsForPath(path) ==
    /\ tabsToClose(tabManager.tabs, path) # <<>>
    /\ tabManager' = closeTabAtOnce(tabManager, Head(tabsToClose(tabManager.tabs, path)).id)
    /\ IF Len(tabsToClose(tabManager.tabs, path)) > 1
       THEN /\ Len(suspended) < MaxSuspended
            /\ suspended' = Append(suspended,
                                   [at |-> "closeTabsForPath",
                                    tabsToClose |-> Tail(tabsToClose(tabManager.tabs, path))])
       ELSE UNCHANGED suspended
    /\ UNCHANGED chatVars

\* the next turn of the loop of a closeTabsForPath
closeTabsForPathGoesOn(k) ==
    /\ suspended[k].at = "closeTabsForPath"
    /\ tabManager' = closeTabAtOnce(tabManager, Head(suspended[k].tabsToClose).id)
    /\ suspended' = IF Len(suspended[k].tabsToClose) > 1
                    THEN [suspended EXCEPT ![k].tabsToClose = Tail(@)]
                    ELSE Without(suspended, k)
    /\ UNCHANGED chatVars

NextTabs ==
    \/ \E path \in FilePaths : openFile(path)
    \/ \E k \in 1..Len(suspended) : getFileReturns(k)
    \/ \E k \in 1..Len(suspended) : getFileFindsNothing(k)
    \/ \E n \in 1..MaxTabs : activateTab(TabId(n))
    \/ activateTab("chat")
    \/ markDirty
    \/ \E n \in 1..MaxTabs : closeTab(TabId(n))
    \/ \E k \in 1..Len(suspended), result \in {"save", "discard", "cancel"} :
          showSaveDialogResolves(k, result)
    \/ \E k \in 1..Len(suspended) : saveFileReturns(k)
    \/ \E k \in 1..Len(suspended) : saveFileFails(k)
    \/ \E path \in DeletedPaths : closeTabsForPath(path)
    \/ \E k \in 1..Len(suspended) : closeTabsForPathGoesOn(k)

SpecTabs == Init /\ [][NextTabs]_vars

(***************************************************************************)
(* Vocabulary of the properties.                                           *)
(***************************************************************************)
InFlight == pc \in {"loop", "prepareRateLimit", "callAPI", "executeToolCalls"}
Resolved == pc = "settled" /\ lastResult.status = "resolved"
Rejected == pc = "settled" /\ lastResult.status = "rejected"
ProviderCallsMade == Len(trace.providerCalls)
CarriedToolCalls(providerCall) ==
    providerCall.settled /\ ~providerCall.failed /\ Len(providerCall.response.toolCalls) > 0

PartsOfType(msg, type) ==
    IF IsArray(msg.content)
    THEN SelectSeq(msg.content.parts, LAMBDA part : part.type = type)
    ELSE <<>>
ToolUseIds(msg) == MapSeq(LAMBDA part : part.id, PartsOfType(msg, "tool_use"))
ToolResultIds(msg) == MapSeq(LAMBDA part : part.tool_use_id, PartsOfType(msg, "tool_result"))
IsToolResultMessage(msg) ==
    /\ msg.role = "user" /\ IsArray(msg.content)
    /\ \A k \in 1..Len(msg.content.parts) : msg.content.parts[k].type = "tool_result"

\* the messages at i and i+1 are a ToolUse message and the message that answers it
AnsweredAt(history, i) ==
    /\ i + 1 <= Len(history)
    /\ IsToolResultMessage(history[i + 1])
    /\ \A k \in 1..Len(history[i].content.parts) :
          history[i].content.parts[k].type = "tool_use" =>
             Cardinality({ j \in 1..Len(history[i + 1].content.parts) :
                             history[i + 1].content.parts[j].tool_use_id
                                = history[i].content.parts[k].id }) = 1

(***************************************************************************)
(* C1.  Whenever no sendMessage call is in flight, every ToolUse block of  *)
(* an assistant message of the store has exactly one ToolResult block with *)
(* the same id, and that block is in the message right after it, whatever  *)
(* the provider answered, the handlers did and wherever the provider       *)
(* failed.                                                                 *)
(***************************************************************************)
C1_ToolUseAnswered ==
    pc \in {"idle", "settled"} =>
        \A i \in 1..Len(conversationHistory) :
            HasToolUse(conversationHistory[i]) => AnsweredAt(conversationHistory, i)

\* a call that was rejected by a provider failure after a tool iteration in
\* which a handler threw
C1_Witness ==
    /\ Rejected /\ ProviderCallsMade = 2 /\ Len(conversationHistory) >= 2
    /\ \E i \in 1..Len(trace.handlerCalls) : trace.handlerCalls[i].outcome.threw
    /\ HasToolUse(conversationHistory[Len(conversationHistory) - 1])

(***************************************************************************)
(* C2.  One sendMessage call with budget M >= 1 makes at most M provider   *)
(* calls; when every response of the provider carried a tool call it has   *)
(* made exactly M calls, it resolves (it does not throw) and its result    *)
(* has needsContinuation = true, iterationsUsed = M and maxIterations = M. *)
(***************************************************************************)
C2_BudgetBoundsProviderCalls ==
    /\ ((InFlight \/ pc = "settled") /\ trace.budget >= 1) =>
          ProviderCallsMade <= trace.budget
    /\ ( /\ pc = "settled" /\ trace.budget >= 1
         /\ ProviderCallsMade > 0
         /\ \A k \in 1..ProviderCallsMade : CarriedToolCalls(trace.providerCalls[k]) )
       => /\ lastResult.status = "resolved"
          /\ ProviderCallsMade = trace.budget
          /\ Has(lastResult.value, "needsContinuation") /\ lastResult.value.needsContinuation
          /\ lastResult.value.iterationsUsed = trace.budget
          /\ lastResult.value.maxIterations = trace.budget

\* a call with budget 2 whose two provider responses both carried tool calls
C2_Witness ==
    /\ Resolved /\ trace.budget = 2 /\ ProviderCallsMade = 2
    /\ \A k \in 1..2 : CarriedToolCalls(trace.providerCalls[k])
    /\ lastResult.value.iterationsUsed = 2

(***************************************************************************)
(* C3.  The tool handlers run during one iteration, and their results.     *)
(***************************************************************************)
IdsOf(calls) == MapSeq(LAMBDA call : call.id, calls)
HandlerCallsOf(iteration) ==
    SelectSeq(trace.handlerCalls, LAMBDA h : h.iteration = iteration)
RegisteredCalls(calls) == SelectSeq(calls, LAMBDA call : HasTool(tools, call.name))

\* the provider returned N tool calls and then a plain-text reply
ToolsThenText ==
    /\ Resolved /\ ProviderCallsMade = 2
    /\ CarriedToolCalls(trace.providerCalls[1])
    /\ ~CarriedToolCalls(trace.providerCalls[2])

ThrewIn(iteration) ==
    \E j \in 1..Len(trace.handlerCalls) :
        /\ trace.handlerCalls[j].iteration = iteration
        /\ Has(trace.handlerCalls[j], "id")
        /\ trace.handlerCalls[j].outcome.threw

\* C4: a handler's throw becomes an error ToolResult, the other calls are
\* still answered in order, and the loop goes on
C4_HandlerErrorBecomesResult ==
    /\ Rejected => \/ currentProvider = ""
                   \/ ProviderCallsMade > 0 /\ Last(trace.providerCalls).failed
    /\ \A j \in 1..Len(trace.handlerCalls) :
          LET h == trace.handlerCalls[j] IN
          ( /\ Has(h, "id") /\ h.outcome.threw
            /\ (pc = "executeToolCalls" => h.iteration < frame.iterations) ) =>
              LET calls == trace.providerCalls[h.iteration].response.toolCalls IN
              /\ IdsOf(HandlerCallsOf(h.iteration)) = IdsOf(RegisteredCalls(calls))
              /\ \E i \in 2..Len(conversationHistory) :
                    /\ IsToolResultMessage(conversationHistory[i])
                    /\ ToolUseIds(conversationHistory[i - 1]) = IdsOf(calls)
                    /\ ToolResultIds(conversationHistory[i]) = IdsOf(calls)
                    /\ \E n \in 1..Len(conversationHistory[i].content.parts) :
                          LET part == conversationHistory[i].content.parts[n] IN
                          /\ part.tool_use_id = h.id
                          /\ Has(part, "is_error") /\ part.is_error
                          /\ part.content = "Error: " \o h.outcome.message
    /\ ( /\ pc = "loop" /\ frame.iterations >= 1 /\ ThrewIn(frame.iterations)
         /\ frame.iterations < frame.MAX_ITERATIONS ) => ENABLED enterIteration

\* the first of two calls threw, the second ran, and the provider was called
\* again
C4_Witness ==
    /\ Resolved /\ ProviderCallsMade = 2
    /\ Len(trace.providerCalls[1].response.toolCalls) = 2
    /\ \E j \in 1..Len(trace.handlerCalls) - 1 :
          /\ Has(trace.handlerCalls[j], "id") /\ trace.handlerCalls[j].outcome.threw
          /\ trace.handlerCalls[j].id = trace.providerCalls[1].response.toolCalls[1].id
          /\ ~trace.handlerCalls[j + 1].outcome.threw

(***************************************************************************)
(* C5.  When the provider call of iteration k fails, sendMessage rejects   *)
(* with the error of the call and the store is what it was when the call   *)
(* was started: the store sendMessage found, the user message if one was   *)
(* appended, and the k-1 pairs of a ToolUse message and its ToolResult     *)
(* message, in order.                                                      *)
(***************************************************************************)
C5_ProviderFailureKeepsStore ==
    (Rejected /\ ProviderCallsMade > 0 /\ Last(trace.providerCalls).failed) =>
        LET k == ProviderCallsMade
            base == Len(trace.storeAtStart) + (IF trace.appended THEN 1 ELSE 0)
        IN  /\ lastResult.error = "API Error"
            /\ Len(conversationHistory) = Last(trace.providerCalls).storeLen
            /\ Len(conversationHistory) = base + 2 * (k - 1)
            /\ IsPrefix(trace.storeAtStart, conversationHistory)
            /\ trace.appended =>
                  /\ conversationHistory[base].role = "user"
                  /\ conversationHistory[base].content = Str(trace.userMessage)
            /\ \A j \in 1..(k - 1) :
                  LET calls == trace.providerCalls[j].response.toolCalls IN
                  /\ conversationHistory[base + 2 * j - 1].role = "assistant"
                  /\ ToolUseIds(conversationHistory[base + 2 * j - 1]) = IdsOf(calls)
                  /\ IsToolResultMessage(conversationHistory[base + 2 * j])
                  /\ ToolResultIds(conversationHistory[base + 2 * j]) = IdsOf(calls)

\* the second provider call of a request that appended its user message
\* failed
C5_Witness ==
    /\ Rejected /\ ProviderCallsMade = 2 /\ Last(trace.providerCalls).failed
    /\ trace.appended /\ Len(conversationHistory) = Len(trace.storeAtStart) + 3

(***************************************************************************)
(* C6.  From an empty store, with provider P and the tool echo, the call   *)
(* sendMessage("hi"), to which P answers first with the tool call          *)
(* echo("hi") and then with the text "done", leaves the store              *)
(* [user "hi", assistant [ToolUse echo], user [ToolResult "hi"],           *)
(* assistant "done"], and P has been called exactly twice.                 *)
(***************************************************************************)
EchoScenario ==
    /\ pc = "settled"
    /\ trace.storeAtStart = <<>> /\ trace.userMessage = "hi" /\ trace.appended
    /\ HasTool(tools, "echo")
    /\ ProviderCallsMade >= 2
    /\ ~Last(trace.providerCalls).failed
    /\ trace.providerCalls[1].response =
          [content |-> "",
           toolCalls |-> <<[id |-> "t1", name |-> "echo", arguments |-> [x |-> "hi"]]>>]
    /\ trace.providerCalls[2].response = [content |-> "done", toolCalls |-> <<>>]
    /\ \E j \in 1..Len(trace.handlerCalls) :
          /\ trace.handlerCalls[j].name = "echo"
          /\ ~trace.handlerCalls[j].outcome.threw

\* C6: the echo exchange leaves the four messages and two provider calls
C6_EchoEndToEnd ==
    EchoScenario =>
        /\ ProviderCallsMade = 2
        /\ Resolved
        /\ conversationHistory =
             << [role |-> "user", content |-> Str("hi"), _id |-> 1],
                [role |-> "assistant",
                 content |-> Arr(<<[type |-> "tool_use", id |-> "t1", name |-> "echo",
                                    input |-> [x |-> "hi"]]>>),
                 _id |-> 2, metadata |-> [toolCallIds |-> <<"t1">>]],
                [role |-> "user",
                 content |-> Arr(<<[type |-> "tool_result", tool_use_id |-> "t1",
                                    content |-> "hi"]>>),
                 _id |-> 3, metadata |-> [toolCallIds |-> <<"t1">>]],
                [role |-> "assistant", content |-> Str("done"), _id |-> 4] >>

C6_Witness == EchoScenario /\ Len(conversationHistory) = 4

(***************************************************************************)
(* C7.  The ids of the messages in the store are strictly increasing in    *)
(* store order, no step other than clearHistory changes the id of a        *)
(* message of the store, and every message of a view getHistoryView        *)
(* returns, whatever its options, carries the id of the message of the     *)
(* store it was derived from: the views keep the order of the store.       *)
(***************************************************************************)
IdsIncrease(history) ==
    \A i, j \in 1..Len(history) :
        i < j => /\ Has(history[i], "_id") /\ Has(history[j], "_id")
                 /\ history[i]._id < history[j]._id

ViewKeepsIds(view, history) ==
    /\ \A k \in 1..Len(view) :
          /\ Has(view[k], "_id")
          /\ \E i \in 1..Len(history) :
                history[i]._id = view[k]._id /\ history[i].role = view[k].role
    /\ IdsIncrease(view)

Views(history) ==
    { getHistoryView(history, minimizeTokens, limitMessages) :
        minimizeTokens \in BOOLEAN, limitMessages \in 0..MaxLimit }

\* C7: ids increase along the store, stay with their message, and are kept
\* by every view
C7_IdsIncreaseAndStay ==
    /\ [](/\ IdsIncrease(conversationHistory)
          /\ \A view \in Views(conversationHistory) : ViewKeepsIds(view, conversationHistory))
    /\ [][conversationHistory' # <<>> =>
             \A i \in 1..Len(conversationHistory) :
                 /\ i <= Len(conversationHistory')
                 /\ conversationHistory'[i]._id = conversationHistory[i]._id]_vars

\* a store of two tool rounds, of which some view is abridged: the first
\* round is summarised in one message
C7_Witness ==
    /\ Len(conversationHistory) = 4
    /\ HasToolUse(conversationHistory[1]) /\ IsToolResultMessage(conversationHistory[2])
    /\ HasToolUse(conversationHistory[3]) /\ IsToolResultMessage(conversationHistory[4])
    /\ \E view \in Views(conversationHistory) :
          Len(view) = 3 /\ view[1]._id = conversationHistory[1]._id

(***************************************************************************)
(* C8.  The store is append-only: a step of sendMessage leaves the store   *)
(* it found as a prefix of the new store.  The store gets shorter only by  *)
(* clearHistory, which empties it and resets the counter, so that the      *)
(* first message appended to an empty store gets id 1.                     *)
(***************************************************************************)
C8_AppendOnly ==
    [][ /\ ~IsPrefix(conversationHistory, conversationHistory') =>
              /\ pc = "idle" /\ pc' = "idle"
              /\ conversationHistory' = <<>>
              /\ messageIdCounter' = 0
        /\ (conversationHistory = <<>> /\ conversationHistory' # <<>>) =>
              conversationHistory'[1]._id = 1 ]_vars

\* clearHistory has emptied a store of four messages
C8_Witness ==
    /\ pc = "idle" /\ trace.cleared = 4
    /\ conversationHistory = <<>> /\ messageIdCounter = 0

(***************************************************************************)
(* C9.  sendMessage resolves with needsContinuation = true if and only if  *)
(* the loop stopped on the budget while the last response of the provider  *)
(* carried tool calls; a reply without tool calls, in the last permitted   *)
(* iteration too, gives a result without the flag; with the flag,          *)
(* iterationsUsed is the number of provider calls made and maxIterations   *)
(* is the budget.                                                          *)
(***************************************************************************)
Flagged ==
    /\ Resolved
    /\ Has(lastResult.value, "needsContinuation")
    /\ lastResult.value.needsContinuation

StoppedOnBudgetWithToolCalls ==
    /\ ProviderCallsMade >= 1
    /\ ProviderCallsMade >= trace.budget
    /\ CarriedToolCalls(Last(trace.providerCalls))

\* C9 as stated, for every budget a caller may pass
C9_FlagIffBudgetExhausted ==
    Resolved =>
        /\ Flagged <=> StoppedOnBudgetWithToolCalls
        /\ ~StoppedOnBudgetWithToolCalls => ~Has(lastResult.value, "needsContinuation")
        /\ Flagged => /\ lastResult.value.iterationsUsed = ProviderCallsMade
                      /\ lastResult.value.maxIterations = trace.budget

\* C9 for the budgets of one provider call or more: the flag is set exactly
\* when the budget ran out on a response with tool calls
C9_FlagIffBudgetExhaustedFromOne ==
    trace.budget >= 1 => C9_FlagIffBudgetExhausted

\* the reply without tool calls came in the last permitted iteration
C9_Witness ==
    /\ Resolved /\ trace.budget = 2 /\ ProviderCallsMade = 2
    /\ ~CarriedToolCalls(Last(trace.providerCalls))
    /\ ~Has(lastResult.value, "needsContinuation")

(***************************************************************************)
(* C10.  When sendMessage has resolved with needsContinuation = true the   *)
(* store ends with the last ToolUse assistant message and the ToolResult   *)
(* message that answers it, and the first provider call of the             *)
(* continuation request that follows is given a list of messages whose     *)
(* last two are these two messages as they are in the store, whatever      *)
(* minimizeTokens and limitMessages are.                                   *)
(***************************************************************************)
EndsWithToolPair(history) ==
    /\ Len(history) >= 2
    /\ HasToolUse(history[Len(history) - 1])
    /\ AnsweredAt(history, Len(history) - 1)

LastTwo(messages) == SubSeq(messages, Len(messages) - 1, Len(messages))

FirstCallOfContinuation ==
    pc = "callAPI" /\ trace.resumes /\ ProviderCallsMade = 1

\* C10 as stated, first part: after any pause the store ends with the last
\* ToolUse message and its ToolResult message
C10_PauseEndsWithToolPair ==
    Flagged => EndsWithToolPair(conversationHistory)

\* C10 for the pauses that follow a provider call: the store ends with the
\* tool pair, and the continuation's first provider call is given it last
C10_ContinuationGetsToolPair ==
    /\ (Flagged /\ ProviderCallsMade >= 1) => EndsWithToolPair(conversationHistory)
    /\ (FirstCallOfContinuation /\ EndsWithToolPair(conversationHistory)) =>
          /\ Len(frame.messages) >= 2
          /\ LastTwo(frame.messages) = LastTwo(conversationHistory)

\* the continuation is given an abridged view of a store of two tool rounds
C10_Witness ==
    /\ FirstCallOfContinuation
    /\ Len(conversationHistory) = 4
    /\ HasToolUse(conversationHistory[1]) /\ HasToolUse(conversationHistory[3])
    /\ Len(frame.messages) >= 2
    /\ frame.messages # conversationHistory
    /\ frame.messages[1].role # "system"

(***************************************************************************)
(* C11.  A sendMessage call that gets past the provider check appends      *)
(* exactly one user text message holding userText, before any provider     *)
(* call, when the request is neither a continuation request nor made with  *)
(* preAddedUserMessage = true; a continuation request and a                *)
(* preAddedUserMessage request leave the store as it is on entry; and the  *)
(* steps of the call that follow append no user message other than         *)
(* ToolResult batches.                                                     *)
(***************************************************************************)
AppendedByCall ==
    SubSeq(conversationHistory, Len(trace.storeAtStart) + 1, Len(conversationHistory))

C11_UserMessageAppendedOnce ==
    ((InFlight \/ pc = "settled") /\ currentProvider # "") =>
        /\ IsPrefix(trace.storeAtStart, conversationHistory)
        /\ IF trace.userMessage # ContinueToken /\ ~trace.preAdded
           THEN /\ Len(AppendedByCall) >= 1
                /\ IsUserText(AppendedByCall[1])
                /\ AppendedByCall[1].content = Str(trace.userMessage)
                /\ Len(SelectSeq(AppendedByCall, IsUserText)) = 1
                /\ \A k \in 1..ProviderCallsMade :
                      trace.providerCalls[k].storeLen > Len(trace.storeAtStart)
           ELSE SelectSeq(AppendedByCall, IsUserText) = <<>>
        /\ \A i \in 1..Len(AppendedByCall) :
              (AppendedByCall[i].role = "user" /\ ~IsUserText(AppendedByCall[i])) =>
                 IsToolResultMessage(AppendedByCall[i])

\* the first provider call of an ordinary request made on a store of an
\* earlier exchange: the user text message is the one message appended
C11_Witness ==
    /\ pc = "callAPI" /\ ProviderCallsMade = 1
    /\ trace.userMessage \in UserTexts
    /\ Len(trace.storeAtStart) >= 2
    /\ Len(conversationHistory) = Len(trace.storeAtStart) + 1
    /\ IsUserText(Last(conversationHistory))
    /\ Last(conversationHistory).content = Str(trace.userMessage)

(***************************************************************************)
(* C12.  The iteration budget of a sendMessage call.                       *)
(***************************************************************************)
BudgetGiven == Has(trace.given, "maxIterations")
DefaultBudget == IF trace.userMessage = ContinueToken THEN 20 ELSE 10
PastProviderCheck == (InFlight \/ pc = "settled") /\ currentProvider # ""
EveryResponseCarriedToolCalls ==
    /\ ProviderCallsMade > 0
    /\ \A k \in 1..ProviderCallsMade : CarriedToolCalls(trace.providerCalls[k])

\* C12 as stated: when options.maxIterations is not supplied the budget is
\* 10 for an ordinary request and 20 for a continuation request; when it is
\* supplied, the supplied value is the budget
C12_BudgetIsDefaultOrSupplied ==
    PastProviderCheck =>
        IF BudgetGiven THEN trace.budget = trace.given.maxIterations
        ELSE trace.budget = DefaultBudget

\* C12 for every supplied value but 0: a call without options.maxIterations
\* has budget 10, or 20 for a continuation request, makes at most that many
\* provider calls, and pauses after exactly that many when every response
\* carried a tool call; a call with options.maxIterations = m, m # 0, has
\* budget m, and m >= 1 bounds its provider calls
C12_BudgetIsDefaultOrSuppliedNonZero ==
    PastProviderCheck =>
        /\ (BudgetGiven /\ trace.given.maxIterations # 0) =>
              /\ trace.budget = trace.given.maxIterations
              /\ trace.budget >= 1 => ProviderCallsMade <= trace.given.maxIterations
        /\ ~BudgetGiven =>
              /\ trace.budget = DefaultBudget
              /\ frame.MAX_ITERATIONS \in {0, DefaultBudget}
              /\ ProviderCallsMade <= DefaultBudget
              /\ (pc = "settled" /\ EveryResponseCarriedToolCalls) =>
                    /\ ProviderCallsMade = DefaultBudget
                    /\ Flagged
                    /\ lastResult.value.maxIterations = DefaultBudget

\* a continuation request without options.maxIterations that has paused
\* again after twenty provider calls
C12_Witness ==
    /\ Flagged /\ ~BudgetGiven /\ trace.userMessage = ContinueToken
    /\ ProviderCallsMade = 20
    /\ lastResult.value.iterationsUsed = 20

(***************************************************************************)
(* C13.  The result of sendMessage carries the tool calls and the tool     *)
(* results of all the iterations of the call: allToolCalls lists every     *)
(* tool call the provider returned during the call, in order,              *)
(* allToolResults has the same length, and its i-th result has the id of   *)
(* the i-th call.                                                          *)
(***************************************************************************)
\* the tool calls of the responses of this call, in the order they came
ToolCallsReturned ==
    FoldLeft(LAMBDA calls, providerCall :
                IF CarriedToolCalls(providerCall) THEN calls \o providerCall.response.toolCalls
                ELSE calls,
             <<>>, trace.providerCalls)

C13_ResultAggregatesAllIterations ==
    Resolved =>
        /\ Len(lastResult.value.allToolCalls) = Len(ToolCallsReturned)
        /\ \A i \in 1..Len(ToolCallsReturned) :
              /\ lastResult.value.allToolCalls[i].id = ToolCallsReturned[i].id
              /\ lastResult.value.allToolCalls[i].name = ToolCallsReturned[i].name
              /\ lastResult.value.allToolCalls[i].arguments = ToolCallsReturned[i].arguments
        /\ Len(lastResult.value.allToolResults) = Len(lastResult.value.allToolCalls)
        /\ \A i \in 1..Len(lastResult.value.allToolResults) :
              lastResult.value.allToolResults[i].id = lastResult.value.allToolCalls[i].id

\* a call of two tool iterations: the result carries the call of the first
\* iteration and the call of the second
C13_Witness ==
    /\ Resolved /\ ProviderCallsMade = 2
    /\ CarriedToolCalls(trace.providerCalls[1]) /\ CarriedToolCalls(trace.providerCalls[2])
    /\ Len(lastResult.value.allToolCalls) = 2
    /\ lastResult.value.allToolResults[1].id = trace.providerCalls[1].response.toolCalls[1].id
    /\ lastResult.value.allToolResults[2].isError

(***************************************************************************)
(* C14.  getHistoryView(false) returns a sequence equal in content to      *)
(* getHistory(), the same messages in the same order with the same ids and *)
(* blocks, and none of the objects it returns is an object of the store: a *)
(* write to a message, a content array, a block or a metadata object of    *)
(* the view cannot reach the store.                                        *)
(***************************************************************************)
RefsOf(obj) == IF Has(obj, "_ref") THEN {obj._ref} ELSE {}

\* the objects of the store that can be reached from the message m
RefsOfMessage(m) ==
    RefsOf(m)
    \cup (IF IsArray(m.content)
          THEN RefsOf(m.content)
               \cup UNION { RefsOf(m.content.parts[k]) : k \in 1..Len(m.content.parts) }
          ELSE {})
    \cup (IF Has(m, "metadata") THEN RefsOf(m.metadata) ELSE {})

\* the objects of the store that can be reached from a view
Refs(view) == UNION { RefsOfMessage(view[k]) : k \in 1..Len(view) }

IsSuffix(s, t) == Len(s) <= Len(t) /\ SubSeq(t, Len(t) - Len(s) + 1, Len(t)) = s

\* view has the contents of the store, or of the end of it under a limit,
\* and holds none of the objects of the store
IsIndependentCopy(view, store, limitMessages) ==
    /\ limitMessages = 0 => view = store
    /\ IsSuffix(view, store)
    /\ Refs(view) = {}

C14_PlainViewIsIndependentCopy ==
    \A limitMessages \in 0..MaxLimit :
        IsIndependentCopy(getHistoryView(Marked(conversationHistory), FALSE, limitMessages),
                          conversationHistory, limitMessages)

\* a full store with a tool round in it: the view has its messages and
\* blocks, and none of the objects of the store
C14_Witness ==
    /\ Len(conversationHistory) = MaxStore
    /\ \E i \in 1..MaxStore : HasToolUse(conversationHistory[i])
    /\ Cardinality(Refs(Marked(conversationHistory))) > 2 * MaxStore
    /\ Len(getHistoryView(Marked(conversationHistory), FALSE, 0)) = MaxStore
    /\ Refs(getHistoryView(Marked(conversationHistory), FALSE, 0)) = {}

(***************************************************************************)
(* C15.  getHistoryView(true) is idempotent on a store nobody else         *)
(* changes: the call that follows a call returns the same output, for      *)
(* every reachable store.  The second call reads the store as the first    *)
(* call left it.                                                           *)
(***************************************************************************)
\* a message of a view that stands for collapsed tool calls only
IsSummaryMessage(entry) ==
    /\ Has(entry, "metadata") /\ Has(entry.metadata, "toolSummary")
    /\ entry.metadata.toolSummary

\* the call that follows the call that returned view returns the same
SecondCallReturns(view, store, limitMessages) ==
    MapSeq(ContentsOf, getHistoryView(Marked(StoreAfterView(store, view)), TRUE, limitMessages))
        = MapSeq(ContentsOf, view)

C15_AbridgedViewIdempotent ==
    \A limitMessages \in 0..MaxLimit :
        SecondCallReturns(getHistoryView(Marked(conversationHistory), TRUE, limitMessages),
                          conversationHistory, limitMessages)

\* a store of three tool rounds: the first two rounds are summarised in one
\* message by the first call, and by the second call in the same way
C15_Witness ==
    /\ Len(conversationHistory) = 6
    /\ HasToolUse(conversationHistory[1]) /\ HasToolUse(conversationHistory[3])
    /\ HasToolUse(conversationHistory[5])
    /\ Len(getHistoryView(Marked(conversationHistory), TRUE, 0)) = 3
    /\ IsSummaryMessage(getHistoryView(Marked(conversationHistory), TRUE, 0)[1])
    /\ SecondCallReturns(getHistoryView(Marked(conversationHistory), TRUE, 0),
                         conversationHistory, 0)

(***************************************************************************)
(* C16.  getHistoryView(minimizeTokens, limitMessages) is read-only for    *)
(* every combination of arguments: the store after the call is the store   *)
(* before it, in length, order, ids, blocks and the fields of every        *)
(* message, also when tool rounds are collapsed and adjacent summaries are *)
(* merged.                                                                 *)
(***************************************************************************)
C16_ViewLeavesStore ==
    \A minimizeTokens \in BOOLEAN, limitMessages \in 0..MaxLimit :
        StoreAfterView(conversationHistory,
                       getHistoryView(Marked(conversationHistory), minimizeTokens,
                                      limitMessages))
            = conversationHistory

\* the tool calls of a summary message
SummaryTotal(entry) ==
    entry.metadata.summaryInfo.successCount + entry.metadata.summaryInfo.failureCount

\* three tool rounds of one call each: the summaries of the first two
\* rounds are merged into one message of the view, and the store is as it was
C16_Witness ==
    /\ Len(conversationHistory) = 6
    /\ HasToolUse(conversationHistory[1]) /\ HasToolUse(conversationHistory[3])
    /\ HasToolUse(conversationHistory[5])
    /\ Len(getHistoryView(Marked(conversationHistory), TRUE, 1)) = 3
    /\ IsSummaryMessage(getHistoryView(Marked(conversationHistory), TRUE, 1)[1])
    /\ SummaryTotal(getHistoryView(Marked(conversationHistory), TRUE, 1)[1]) = 2
    /\ StoreAfterView(conversationHistory,
                      getHistoryView(Marked(conversationHistory), TRUE, 1))
          = conversationHistory

(***************************************************************************)
(* C17.  In getHistoryView(true) the last assistant message of the store   *)
(* that holds a ToolUse block is in the view as it is in the store, with   *)
(* all its blocks, and when the message of its ToolResults follows it in   *)
(* the store, that message follows it in the view, as it is in the store.  *)
(***************************************************************************)
IsLastToolMessage(store, i) ==
    /\ HasToolUse(store[i])
    /\ \A j \in (i + 1)..Len(store) : ~HasToolUse(store[j])

\* the message at place i of the store is at place k of the view, and so
\* is the message of its results behind it
VerbatimAt(view, k, store, i) ==
    /\ view[k] = store[i]
    /\ (i + 1 <= Len(store) /\ AnsweredAt(store, i)) =>
          /\ k + 1 <= Len(view)
          /\ view[k + 1] = store[i + 1]

LastToolRoundVerbatim(view, store) ==
    \A i \in 1..Len(store) :
        IsLastToolMessage(store, i) =>
            /\ \E k \in 1..Len(view) : VerbatimAt(view, k, store, i)
            /\ Cardinality({ k \in 1..Len(view) : view[k]._id = store[i]._id }) = 1

C17_LastToolRoundVerbatim ==
    \A limitMessages \in 0..MaxLimit :
        LastToolRoundVerbatim(getHistoryView(conversationHistory, TRUE, limitMessages),
                              conversationHistory)

\* a user message and two tool rounds: the first round is collapsed, the
\* second is in the view as it is in the store
C17_Witness ==
    /\ Len(conversationHistory) = 5
    /\ IsUserText(conversationHistory[1])
    /\ HasToolUse(conversationHistory[2]) /\ HasToolUse(conversationHistory[4])
    /\ Len(getHistoryView(conversationHistory, TRUE, 0)) = 4
    /\ getHistoryView(conversationHistory, TRUE, 0)[2] # conversationHistory[2]
    /\ VerbatimAt(getHistoryView(conversationHistory, TRUE, 0), 3, conversationHistory, 4)

(***************************************************************************)
(* C18.  In getHistoryView(true) the assistant messages with ToolUse       *)
(* blocks before the last one are collapsed.                               *)
(***************************************************************************)
IsEarlierToolMessage(store, i) == HasToolUse(store[i]) /\ ~IsLastToolMessage(store, i)

\* the ToolResult that answers the tool call id of the message at i is an
\* error
ResultIsError(store, i, id) ==
    /\ i + 1 <= Len(store)
    /\ IsArray(store[i + 1].content)
    /\ \E k \in 1..Len(store[i + 1].content.parts) :
          /\ store[i + 1].content.parts[k].type = "tool_result"
          /\ store[i + 1].content.parts[k].tool_use_id = id
          /\ Has(store[i + 1].content.parts[k], "is_error")
          /\ store[i + 1].content.parts[k].is_error

\* the tool calls of the message at i, in order, with how they ended
ToolCallsOf(store, i) ==
    MapSeq(LAMBDA part : [name |-> part.name, isError |-> ResultIsError(store, i, part.id)],
           PartsOfType(store[i], "tool_use"))

\* the tool calls of the messages at the places in members, in store order
ToolCallsOfAll(store, members) ==
    FoldLeft(LAMBDA calls, i : IF i \in members THEN calls \o ToolCallsOf(store, i) ELSE calls,
             <<>>, [i \in 1..Len(store) |-> i])

\* the one or two lines that state how many of the calls succeeded and how
\* many failed
SummaryLines(calls) ==
    buildToolSummaryText(
        [successCount |-> Len(SelectSeq(calls, LAMBDA call : ~call.isError)),
         failureCount |-> Len(SelectSeq(calls, LAMBDA call : call.isError)),
         successNames |-> MapSeq(LAMBDA call : call.name,
                                 SelectSeq(calls, LAMBDA call : ~call.isError)),
         failureNames |-> MapSeq(LAMBDA call : call.name,
                                 SelectSeq(calls, LAMBDA call : call.isError))])

\* the blocks that stand for the message at h when the tool calls of the
\* messages at members are summarised in it: its text, and the lines
BlocksFor(store, h, members) ==
    MapSeq(LAMBDA part : [type |-> "text", text |-> part.text], PartsOfType(store[h], "text"))
    \o MapSeq(LAMBDA line : [type |-> "text", text |-> line, metadata |-> [toolSummary |-> TRUE]],
              SummaryLines(ToolCallsOfAll(store, members)))

PlacesOf(view, id) == { k \in 1..Len(view) : view[k]._id = id }

\* the message at h is in the view once, as the summary of the tool calls
\* of the messages at members
CollapsedInto(view, store, h, members) ==
    /\ Cardinality(PlacesOf(view, store[h]._id)) = 1
    /\ \A k \in PlacesOf(view, store[h]._id) :
          /\ view[k].role = "assistant"
          /\ view[k].content = Arr(BlocksFor(store, h, members))
          /\ Len(SummaryLines(ToolCallsOfAll(store, members))) \in {1, 2}

\* the message of ToolResults that answers the message at i is not in the view
ResultsOmitted(view, store, i) ==
    (i + 1 <= Len(store) /\ IsToolResultMessage(store[i + 1])) =>
        PlacesOf(view, store[i + 1]._id) = {}

\* none of the ToolUse blocks of the message at i is in the view
ToolUsesGone(view, store, i) ==
    \A k \in 1..Len(view), j \in 1..Len(ToolUseIds(store[i])) :
        \A n \in 1..Len(ToolUseIds(view[k])) : ToolUseIds(view[k])[n] # ToolUseIds(store[i])[j]

\* C18 as stated: every earlier tool message is replaced by the lines that
\* count its own tool calls
EachCollapsedOnItsOwn(view, store) ==
    \A i \in 1..Len(store) :
        IsEarlierToolMessage(store, i) =>
            /\ ToolUsesGone(view, store, i)
            /\ CollapsedInto(view, store, i, {i})
            /\ ResultsOmitted(view, store, i)

C18_EachCollapsedOnItsOwn ==
    EachCollapsedOnItsOwn(getHistoryView(conversationHistory, TRUE, 0), conversationHistory)

\* the earlier tool messages from h to i are collapsed without a break: they
\* hold no text, and only messages of ToolResults lie between them
IsTextLess(msg) == PartsOfType(msg, "text") = <<>>

SameRun(store, h, i) ==
    /\ h <= i
    /\ \A j \in h..i :
          \/ IsEarlierToolMessage(store, j) /\ IsTextLess(store[j])
          \/ IsToolResultMessage(store[j])

\* the earlier tool messages whose summaries are merged with that of h
RunOf(store, h) ==
    IF IsTextLess(store[h])
    THEN { i \in h..Len(store) : IsEarlierToolMessage(store, i) /\ SameRun(store, h, i) }
    ELSE {h}

IsRunHead(store, h) ==
    /\ IsEarlierToolMessage(store, h)
    /\ ~\E g \in 1..(h - 1) : IsEarlierToolMessage(store, g) /\ h \in RunOf(store, g)

\* C18 as amended: the summaries of adjacent collapsed messages are merged
MergedRunsCollapsed(view, store) ==
    \A i \in 1..Len(store) :
        IsEarlierToolMessage(store, i) =>
            /\ ToolUsesGone(view, store, i)
            /\ ResultsOmitted(view, store, i)
            /\ IF IsRunHead(store, i)
               THEN CollapsedInto(view, store, i, RunOf(store, i))
               ELSE PlacesOf(view, store[i]._id) = {}

C18_MergedRunsCollapsed ==
    MergedRunsCollapsed(getHistoryView(conversationHistory, TRUE, 0), conversationHistory)

\* three tool rounds of one call each, the first two without text and one of
\* their calls failed: the view holds one summary of two lines for both
C18_Witness ==
    /\ Len(conversationHistory) = 6
    /\ HasToolUse(conversationHistory[1]) /\ HasToolUse(conversationHistory[3])
    /\ HasToolUse(conversationHistory[5])
    /\ RunOf(conversationHistory, 1) = {1, 3}
    /\ Len(ToolCallsOfAll(conversationHistory, {1, 3})) = 2
    /\ ToolCallsOf(conversationHistory, 1)[1].isError # ToolCallsOf(conversationHistory, 3)[1].isError
    /\ Len(getHistoryView(conversationHistory, TRUE, 0)) = 3
    /\ Len(getHistoryView(conversationHistory, TRUE, 0)[1].content.parts) = 2
    /\ PlacesOf(getHistoryView(conversationHistory, TRUE, 0), conversationHistory[3]._id) = {}

(***************************************************************************)
(* C19.  In getHistoryView(true) every user text message and every         *)
(* assistant message whose content is plain text appears exactly once, in  *)
(* the same relative order, with the same id, role and content as in the   *)
(* store.                                                                  *)
(***************************************************************************)
IsPlainText(msg) == msg.role \in {"user", "assistant"} /\ IsString(msg.content)

\* the plain text messages of a list, in order, by id, role and content
PlainTextOf(messages) ==
    MapSeq(LAMBDA msg : [_id |-> msg._id, role |-> msg.role, content |-> msg.content],
           SelectSeq(messages, IsPlainText))

PlainTextPassesThrough(view, store) ==
    /\ PlainTextOf(view) = PlainTextOf(store)
    /\ \A i \in 1..Len(store) :
          IsPlainText(store[i]) => Cardinality(PlacesOf(view, store[i]._id)) = 1

C19_PlainTextPassesThrough ==
    PlainTextPassesThrough(getHistoryView(conversationHistory, TRUE, 0), conversationHistory)

\* a store with a user text message, a plain text message of the assistant
\* and a collapsed tool round, whose view is shorter than the store
C19_Witness ==
    /\ \E i, j \in 1..Len(conversationHistory) :
          /\ IsUserText(conversationHistory[i])
          /\ conversationHistory[j].role = "assistant"
          /\ IsString(conversationHistory[j].content)
    /\ \E i \in 1..Len(conversationHistory) : IsEarlierToolMessage(conversationHistory, i)
    /\ Len(getHistoryView(conversationHistory, TRUE, 0)) < Len(conversationHistory)
    /\ Len(PlainTextOf(getHistoryView(conversationHistory, TRUE, 0))) >= 2

(***************************************************************************)
(* C20.  The tool handlers of one assistant turn run one after another:    *)
(* a handler is started only when the one before it has returned or        *)
(* thrown, the handlers start in the order of the tool calls of the        *)
(* response, and no provider call is in flight while a handler runs.       *)
(***************************************************************************)
HandlersStartedIn(iteration) ==
    MapSeq(LAMBDA h : h.id, SelectSeq(trace.handlerStarts, LAMBDA h : h.iteration = iteration))

HandlersEndedIn(iteration) ==
    MapSeq(LAMBDA h : h.id,
           SelectSeq(trace.handlerCalls, LAMBDA h : h.iteration = iteration /\ Has(h, "id")))

\* the place of id in the tool calls of the response of the iteration
PlaceOfCall(iteration, id) ==
    CHOOSE n \in 1..Len(trace.providerCalls[iteration].response.toolCalls) :
        trace.providerCalls[iteration].response.toolCalls[n].id = id

\* every handler started in the iteration but the last has ended, in the
\* order of the starts
OneAtATime(iteration) ==
    /\ IsPrefix(HandlersEndedIn(iteration), HandlersStartedIn(iteration))
    /\ Len(HandlersStartedIn(iteration)) <= Len(HandlersEndedIn(iteration)) + 1

\* the handlers started in the iteration are those of tool calls of its
\* response, each started once, in the order of the calls
InCallOrder(iteration) ==
    /\ \A k \in 1..Len(HandlersStartedIn(iteration)) :
          \E n \in 1..Len(trace.providerCalls[iteration].response.toolCalls) :
              trace.providerCalls[iteration].response.toolCalls[n].id
                  = HandlersStartedIn(iteration)[k]
    /\ \A k, l \in 1..Len(HandlersStartedIn(iteration)) :
          k < l => PlaceOfCall(iteration, HandlersStartedIn(iteration)[k])
                     < PlaceOfCall(iteration, HandlersStartedIn(iteration)[l])

HandlerRunning == Len(trace.handlerStarts) > Len(SelectSeq(trace.handlerCalls, LAMBDA h : Has(h, "id")))

ProviderCallInFlight ==
    \/ pc = "callAPI"
    \/ \E k \in 1..Len(trace.providerCalls) : ~trace.providerCalls[k].settled

C20_HandlersRunOneAfterAnother ==
    /\ Cardinality(frame.running) <= 1
    /\ HandlerRunning <=> frame.running # {}
    /\ HandlerRunning => ~ProviderCallInFlight
    /\ \A iteration \in 1..Len(trace.providerCalls) :
          (trace.handlerStarts # <<>> /\ trace.providerCalls[iteration].settled
           /\ ~trace.providerCalls[iteration].failed) =>
              OneAtATime(iteration) /\ InCallOrder(iteration)

\* the second handler of a response with two tool calls is running, the
\* first has ended
C20_Witness ==
    /\ pc = "executeToolCalls"
    /\ Len(frame.response.toolCalls) = 2
    /\ frame.running = {2}
    /\ Len(frame.toolResults) = 1
    /\ Len(HandlersStartedIn(frame.iterations)) = 2
    /\ Len(HandlersEndedIn(frame.iterations)) = 1

(***************************************************************************)
(* C21.  When every provider call and every tool handler returns or        *)
(* throws, every sendMessage call that reached the loop finishes, in       *)
(* exactly one of three ways: DONE (the last response carried no tool      *)
(* calls), PAUSED (budget exhausted, needsContinuation = true) or rejected *)
(* with the provider's error; so it does for a provider that asks for      *)
(* tools in every response.                                                *)
(***************************************************************************)
LastResponseWasFinal ==
    /\ ProviderCallsMade >= 1
    /\ Last(trace.providerCalls).settled
    /\ ~Last(trace.providerCalls).failed
    /\ Len(Last(trace.providerCalls).response.toolCalls) = 0

FinishedDone ==
    /\ Resolved
    /\ ~Has(lastResult.value, "needsContinuation")
    /\ LastResponseWasFinal

FinishedPaused ==
    /\ Flagged
    /\ ~LastResponseWasFinal
    /\ ProviderCallsMade >= trace.budget

FinishedRejected ==
    /\ Rejected
    /\ lastResult.error = "API Error"
    /\ ProviderCallsMade >= 1
    /\ Last(trace.providerCalls).settled /\ Last(trace.providerCalls).failed

FinishedInOneWay ==
    /\ pc = "settled"
    /\ Cardinality({ way \in {"done", "paused", "rejected"} :
                        \/ way = "done" /\ FinishedDone
                        \/ way = "paused" /\ FinishedPaused
                        \/ way = "rejected" /\ FinishedRejected }) = 1

C21_EveryCallFinishes == InFlight ~> FinishedInOneWay

\* an ordinary call without a budget of its own is paused after ten
\* responses that all asked for a tool
C21_Witness ==
    /\ FinishedPaused /\ ~BudgetGiven /\ trace.userMessage = "hi"
    /\ EveryResponseCarriedToolCalls
    /\ ProviderCallsMade = 10

(***************************************************************************)
(* C22.  For every adapter, a success response that lacks the expected     *)
(* fields is parsed into a result with empty text and no tool calls, not   *)
(* into an exception: sendMessage finishes DONE without appending an       *)
(* assistant message, and does not reject.                                 *)
(***************************************************************************)
\* the provider call was answered with a success response, whose body was b
AnsweredWith(providerCall, b) ==
    /\ providerCall.settled
    /\ IF providerCall.failed THEN Has(providerCall, "raw") /\ providerCall.raw = b
       ELSE Has(providerCall.response, "raw") /\ providerCall.response.raw = b

AnsweredWithPartial(providerCall) ==
    \E b \in PartialBodies(currentProvider) : AnsweredWith(providerCall, b)

ParsedAsEmpty(providerCall) ==
    /\ ~providerCall.failed
    /\ providerCall.response.content = ""
    /\ providerCall.response.toolCalls = <<>>

\* the call ended DONE on its last provider call, which appended nothing
EndedDoneWithoutMessage ==
    /\ Resolved
    /\ ~Has(lastResult.value, "needsContinuation")
    /\ Len(conversationHistory) = Last(trace.providerCalls).storeLen

C22_PartialResponseEndsDone ==
    \A k \in 1..Len(trace.providerCalls) :
        AnsweredWithPartial(trace.providerCalls[k]) =>
            /\ ParsedAsEmpty(trace.providerCalls[k])
            /\ pc = "settled" => (k = Len(trace.providerCalls) /\ EndedDoneWithoutMessage)

\* what holds: the Gemini and Ollama adapters parse every such body as
\* empty, and so do the others when the field they index is there; the
\* Claude adapter without content and the OpenAI adapter without
\* choices[0].message throw, and sendMessage rejects
ThrowsOnBody(adapter, b) ==
    \/ adapter = "claude" /\ ~Has(b, "content")
    \/ adapter = "openai" /\ (~Has(b, "choices") \/ b.choices = <<>>
                              \/ ~Has(b.choices[1], "message"))

C22_PartialResponseEndsDoneOrRejects ==
    \A k \in 1..Len(trace.providerCalls) :
        \A b \in PartialBodies(currentProvider) :
            AnsweredWith(trace.providerCalls[k], b) =>
                /\ k = Len(trace.providerCalls)
                /\ IF ThrowsOnBody(currentProvider, b)
                   THEN /\ Rejected
                        /\ Len(conversationHistory) = trace.providerCalls[k].storeLen
                   ELSE /\ ParsedAsEmpty(trace.providerCalls[k])
                        /\ pc = "settled" => EndedDoneWithoutMessage

\* the Claude adapter was handed a success body without content after a
\* tool round, and sendMessage has rejected
C22_Witness ==
    /\ currentProvider = "claude"
    /\ Rejected
    /\ Len(trace.providerCalls) = 2
    /\ AnsweredWith(trace.providerCalls[2], [type |-> "error"])
    /\ HasToolUse(conversationHistory[Len(conversationHistory) - 1])

(***************************************************************************)
(* C23.  For every adapter, formatMessages keeps the correlation of tool   *)
(* calls and results: every ToolUse block of the messages becomes one tool *)
(* call on the wire, every ToolResult block one result on the wire, and    *)
(* the result names the call it answers: by its id, or, where the API has  *)
(* function-call parts, by the name of the function that was called.       *)
(***************************************************************************)
\* the ToolUse and the ToolResult blocks of the messages, in order
BlocksOfType(messages, type) ==
    FoldLeft(LAMBDA blocks, msg : blocks \o PartsOfType(msg, type), <<>>, messages)

\* the name of the tool that the call with this id called
NameOfCall(messages, id) ==
    (CHOOSE part \in { BlocksOfType(messages, "tool_use")[k] :
                         k \in 1..Len(BlocksOfType(messages, "tool_use")) } : part.id = id).name

\* the ids of the tool calls and of the results on the wire, in order
WireCallIds(adapter, wire) ==
    IF adapter = "claude" THEN MapSeq(LAMBDA part : part.id, BlocksOfType(wire, "tool_use"))
    ELSE FoldLeft(LAMBDA ids, m :
                     IF Has(m, "tool_calls") THEN ids \o MapSeq(LAMBDA tc : tc.id, m.tool_calls)
                     ELSE ids,
                  <<>>, wire)

WireResultIds(adapter, wire) ==
    IF adapter = "claude"
    THEN MapSeq(LAMBDA part : part.tool_use_id, BlocksOfType(wire, "tool_result"))
    ELSE MapSeq(LAMBDA m : m.tool_call_id, SelectSeq(wire, LAMBDA m : m.role = "tool"))

\* the function-call and the function-response parts on the wire, in order
WireParts(wire, field) ==
    FoldLeft(LAMBDA parts, m : parts \o SelectSeq(m.parts, LAMBDA part : Has(part, field)),
             <<>>, wire)

\* the names the results on the wire should carry: those of the calls they
\* answer
AnsweredNames(messages) ==
    MapSeq(LAMBDA part : NameOfCall(messages, part.tool_use_id),
           BlocksOfType(messages, "tool_result"))

CorrelationKept(adapter, messages, wire) ==
    IF adapter = "gemini"
    THEN /\ MapSeq(LAMBDA part : part.functionCall.name, WireParts(wire, "functionCall"))
              = MapSeq(LAMBDA part : part.name, BlocksOfType(messages, "tool_use"))
         /\ MapSeq(LAMBDA part : part.functionResponse.name, WireParts(wire, "functionResponse"))
              = AnsweredNames(messages)
    ELSE /\ WireCallIds(adapter, wire)
              = MapSeq(LAMBDA part : part.id, BlocksOfType(messages, "tool_use"))
         /\ WireResultIds(adapter, wire)
              = MapSeq(LAMBDA part : part.tool_use_id, BlocksOfType(messages, "tool_result"))

C23_CorrelationKept ==
    pc = "callAPI" =>
        \A isO1Model \in BOOLEAN :
            CorrelationKept(currentProvider, frame.messages,
                            formatMessages(currentProvider, frame.messages, isO1Model))

\* what holds: calls and results keep their number and order, and their ids
\* where the wire format has ids; the results of the Gemini format all
\* carry the name 'unknown'
CorrelationKeptButForNames(adapter, messages, wire) ==
    IF adapter = "gemini"
    THEN /\ MapSeq(LAMBDA part : part.functionCall.name, WireParts(wire, "functionCall"))
              = MapSeq(LAMBDA part : part.name, BlocksOfType(messages, "tool_use"))
         /\ MapSeq(LAMBDA part : part.functionResponse.name, WireParts(wire, "functionResponse"))
              = MapSeq(LAMBDA part : "unknown", BlocksOfType(messages, "tool_result"))
    ELSE CorrelationKept(adapter, messages, wire)

C23_CorrelationKeptButForNames ==
    pc = "callAPI" =>
        \A isO1Model \in BOOLEAN :
            CorrelationKeptButForNames(currentProvider, frame.messages,
                                       formatMessages(currentProvider, frame.messages, isO1Model))

\* the Gemini adapter is about to send a tool round whose result does not
\* name the function that was called
C23_Witness ==
    /\ pc = "callAPI"
    /\ currentProvider = "gemini"
    /\ Len(BlocksOfType(frame.messages, "tool_result")) >= 1
    /\ AnsweredNames(frame.messages)[1] = "echo"
    /\ WireParts(formatMessagesGemini(frame.messages), "functionResponse")[1].functionResponse.name
          = "unknown"

(***************************************************************************)
(* C24.  In getHistoryView(true) adjacent collapsed tool turns (earlier    *)
(* tool-bearing assistant messages with only their own ToolResult messages *)
(* between them in the store) appear as one single summary message, whose  *)
(* success and failure counts are the sums of those of the merged turns.   *)
(***************************************************************************)
SuccessesOf(store, members) ==
    Len(SelectSeq(ToolCallsOfAll(store, members), LAMBDA call : ~call.isError))
FailuresOf(store, members) ==
    Len(SelectSeq(ToolCallsOfAll(store, members), LAMBDA call : call.isError))

\* the message at h is in the view once, as a summary with the counts of the
\* turns at members, and the other turns at members are not in the view
OneSummaryFor(view, store, h, members) ==
    /\ Cardinality(PlacesOf(view, store[h]._id)) = 1
    /\ \A k \in PlacesOf(view, store[h]._id) :
          /\ IsSummaryMessage(view[k])
          /\ view[k].metadata.summaryInfo.successCount = SuccessesOf(store, members)
          /\ view[k].metadata.summaryInfo.failureCount = FailuresOf(store, members)
    /\ \A i \in members \ {h} : PlacesOf(view, store[i]._id) = {}

\* the earlier tool turns that follow the one at h with only messages of
\* ToolResults between them, whether they hold a text or not
TurnsFrom(store, h) ==
    { i \in h..Len(store) :
        /\ IsEarlierToolMessage(store, i)
        /\ \A j \in h..i : IsEarlierToolMessage(store, j) \/ IsToolResultMessage(store[j]) }

IsFirstTurn(store, h) ==
    /\ IsEarlierToolMessage(store, h)
    /\ ~\E g \in 1..(h - 1) : IsEarlierToolMessage(store, g) /\ h \in TurnsFrom(store, g)

\* C24 as stated: all adjacent collapsed turns are in one summary message
AdjacentTurnsInOneSummary(view, store) ==
    \A h \in 1..Len(store) :
        (IsFirstTurn(store, h) /\ Cardinality(TurnsFrom(store, h)) >= 2) =>
            OneSummaryFor(view, store, h, TurnsFrom(store, h))

C24_AdjacentTurnsInOneSummary ==
    AdjacentTurnsInOneSummary(getHistoryView(conversationHistory, TRUE, 0), conversationHistory)

\* C24 as amended: the adjacent collapsed turns that hold no text are in one
\* summary message; a collapsed turn that holds a text keeps a message of its
\* own, with its text
TextLessTurnsInOneSummary(view, store) ==
    \A h \in 1..Len(store) :
        IsRunHead(store, h) =>
            IF IsTextLess(store[h])
            THEN OneSummaryFor(view, store, h, RunOf(store, h))
            ELSE /\ Cardinality(PlacesOf(view, store[h]._id)) = 1
                 /\ \A k \in PlacesOf(view, store[h]._id) :
                       /\ ~IsSummaryMessage(view[k])
                       /\ view[k].content.parts[1]
                            = [type |-> "text", text |-> LastText(store[h].content.parts)]

C24_TextLessTurnsInOneSummary ==
    TextLessTurnsInOneSummary(getHistoryView(conversationHistory, TRUE, 0), conversationHistory)

\* three tool rounds without text whose calls all succeeded: the two earlier
\* turns are one summary of two successful calls
C24_Witness ==
    /\ Len(conversationHistory) = 6
    /\ RunOf(conversationHistory, 1) = {1, 3}
    /\ IsLastToolMessage(conversationHistory, 5)
    /\ SuccessesOf(conversationHistory, {1, 3}) = 2
    /\ OneSummaryFor(getHistoryView(conversationHistory, TRUE, 0), conversationHistory, 1, {1, 3})

(***************************************************************************)
(* C25.  The store has one writer, the orchestrator (sendMessage and       *)
(* clearHistory): what getHistory and getHistoryView hand out are          *)
(* snapshots, and no action of the caller (rendering, metadata attachment, *)
(* history restore) changes the content of the store.                      *)
(***************************************************************************)
\* a step of sendMessage: its entry, or a step of a call in flight
StepOfSendMessage == (pc = "idle" /\ pc' # "idle") \/ InFlight

\* a step that leaves the store as clearHistory leaves it
StepClearsStore == pc = "idle" /\ conversationHistory' = <<>>

C25_OrchestratorIsTheOnlyWriter ==
    [][conversationHistory' # conversationHistory => (StepOfSendMessage \/ StepClearsStore)]_vars

\* what holds of processUnifiedResponse: it writes to the store, but only
\* the metadata of one assistant message
WithoutMetadata(msg) == [f \in DOMAIN msg \ {"metadata"} |-> msg[f]]

C25_CallerWritesMetadataOnly ==
    [][pc = "settled" =>
         /\ Len(conversationHistory') = Len(conversationHistory)
         /\ Cardinality({ i \in 1..Len(conversationHistory) :
                            conversationHistory'[i] # conversationHistory[i] }) <= 1
         /\ \A i \in 1..Len(conversationHistory) :
               /\ WithoutMetadata(conversationHistory'[i]) = WithoutMetadata(conversationHistory[i])
               /\ conversationHistory'[i] # conversationHistory[i] =>
                     conversationHistory[i].role = "assistant"]_vars

\* the chat client has processed the reply of the first exchange: the
\* stored assistant message carries the provider and the model
C25_Witness ==
    /\ pc = "idle"
    /\ messageIdCounter = 2
    /\ Len(conversationHistory) = 2
    /\ conversationHistory[2].role = "assistant"
    /\ Has(conversationHistory[2], "metadata")
    /\ conversationHistory[2].metadata = [provider |-> "P", model |-> "m2"]

(***************************************************************************)
(* C26.  The display metadata (originating provider and model) of a stored *)
(* message is attached at most once: over the exchanges processed by       *)
(* processUnifiedResponse, paused exchanges and exchanges made after a     *)
(* switch of model included, a message that has received its display      *)
(* metadata never has it overwritten.                                      *)
(***************************************************************************)
HasDisplayMetadata(msg) == Has(msg, "metadata") /\ Has(msg.metadata, "provider")

\* the step leaves the display metadata of the stored messages as it is
DisplayMetadataKept ==
    \A i \in 1..Len(conversationHistory) :
        HasDisplayMetadata(conversationHistory[i]) =>
            /\ i <= Len(conversationHistory')
            /\ HasDisplayMetadata(conversationHistory'[i])
            /\ conversationHistory'[i].metadata = conversationHistory[i].metadata

C26_DisplayMetadataAttachedOnce == [][pc = "settled" => DisplayMetadataKept]_vars

\* what holds: the exchanges that do not end paused leave the display
\* metadata of the stored messages as it is
C26_AttachedOnceUnlessPaused == [][(pc = "settled" /\ ~Flagged) => DisplayMetadataKept]_vars

\* an exchange has ended paused after a switch of model: its result goes to
\* processUnifiedResponse while the last assistant text message of the store,
\* the reply of an earlier exchange, carries its display metadata
C26_Witness ==
    /\ Flagged
    /\ lastResult.value.content # ""
    /\ EntryToMark(conversationHistory) # 0
    /\ EntryToMark(conversationHistory) <= Len(trace.storeAtStart)
    /\ HasDisplayMetadata(conversationHistory[EntryToMark(conversationHistory)])
    /\ conversationHistory[EntryToMark(conversationHistory)].metadata.model = "m1"
    /\ messageIdCounter = Len(conversationHistory)

(***************************************************************************)
(* C27.  After any sequence of registerTool and registerTools calls no two *)
(* tools of the registry have the same name, so that the name alone        *)
(* determines the handler that runs for a tool call.                       *)
(***************************************************************************)
NamesUnique(registry) ==
    \A i, j \in 1..Len(registry) : registry[i] = registry[j] => i = j

C27_ToolNamesUnique == NamesUnique(tools)

\* what holds: the registry that registerUniversalTools leaves has no name
\* twice
C27_UniversalToolsUnique ==
    [][(\E toolFilters \in [code : BOOLEAN, filesystem : BOOLEAN] :
            registerUniversalTools(toolFilters)) => NamesUnique(tools')]_vars

\* a tool was registered twice under one name, and the provider has asked
\* for it
C27_Witness ==
    /\ Len(tools) = 2
    /\ tools[1] = "echo" /\ tools[2] = "echo"
    /\ pc = "executeToolCalls"
    /\ frame.callIndex = 0
    /\ frame.response.toolCalls[1].name = "echo"

(***************************************************************************)
(* C28.  onProgress.                                                       *)
(***************************************************************************)
OnProgressGiven == "onProgress" \in trace.hooks

\* the provider calls of this sendMessage that returned a response
ReturnedCalls ==
    {k \in 1..Len(trace.providerCalls) :
        trace.providerCalls[k].settled /\ ~trace.providerCalls[k].failed}

\* the sendMessage call is between two iterations, or has left the loop
BetweenIterations == pc \in {"loop", "settled"}

\* C28 as stated: when options.onProgress is supplied, it is invoked once
\* per loop iteration, so that between iterations the number of callbacks
\* equals the number of provider calls that returned
C28_OneCallbackPerReturnedCall ==
    (OnProgressGiven /\ BetweenIterations) =>
        Len(trace.progressCalls) = Cardinality(ReturnedCalls)

\* the messages iteration k appended to the store, while the loop runs
AppendedIn(k) ==
    SubSeq(conversationHistory, trace.providerCalls[k].storeLen + 1,
           IF k < Len(trace.providerCalls) THEN trace.providerCalls[k + 1].storeLen
           ELSE Len(conversationHistory))

CallbacksOf(k) == {i \in 1..Len(trace.progressCalls) : trace.progressCalls[i].iteration = k}

\* the response of provider call k made the loop append messages
ResponseAppends(k) ==
    \/ Len(trace.providerCalls[k].response.toolCalls) > 0
    \/ trace.providerCalls[k].response.content # ""

\* C28, amended: when options.onProgress is supplied, it is invoked exactly
\* once in every loop iteration that appended messages to the store (every
\* tool iteration, and the final iteration when the response has a text),
\* in the order of the iterations and with the messages that iteration
\* appended, and not at all in an iteration that appended nothing; the
\* number of callbacks equals the number of provider calls that returned a
\* response with tool calls or a text
C28_OneCallbackPerAppendingIteration ==
    /\ (OnProgressGiven /\ BetweenIterations) =>
          /\ Len(trace.progressCalls) =
                Cardinality({k \in ReturnedCalls : ResponseAppends(k)})
          /\ \A i, j \in 1..Len(trace.progressCalls) :
                i < j => trace.progressCalls[i].iteration < trace.progressCalls[j].iteration
    /\ (OnProgressGiven /\ pc = "loop") =>
          /\ \A k \in 1..Len(trace.providerCalls) :
                Cardinality(CallbacksOf(k)) = (IF AppendedIn(k) # <<>> THEN 1 ELSE 0)
          /\ \A i \in 1..Len(trace.progressCalls) :
                trace.progressCalls[i].messages = AppendedIn(trace.progressCalls[i].iteration)
    /\ ~OnProgressGiven => trace.progressCalls = <<>>

\* a tool iteration and a final iteration with a text, each reported once
C28_Witness ==
    /\ OnProgressGiven
    /\ pc = "loop"
    /\ Len(trace.providerCalls) = 2
    /\ Len(trace.progressCalls) = 2
    /\ trace.progressCalls[1].type = "tool_iteration"
    /\ trace.progressCalls[2].type = "final_assistant_message"
    /\ trace.progressCalls[2].messages = <<Last(conversationHistory)>>

\* a final iteration whose response is empty: no callback
C28_EmptyFinalResponse ==
    /\ OnProgressGiven
    /\ pc = "loop"
    /\ Len(trace.providerCalls) = 2
    /\ trace.providerCalls[2].response.content = ""
    /\ Len(trace.progressCalls) = 1
(***************************************************************************)
(* C29.  prepareRateLimit.                                                 *)
(***************************************************************************)
RateLimitGiven == "prepareRateLimit" \in trace.hooks

\* the hook has been called and its promise has not settled yet
HookPending ==
    /\ trace.rateLimitCalls # <<>>
    /\ ~Last(trace.rateLimitCalls).settled

\* C29: when options.prepareRateLimit is supplied, the k-th provider call of
\* a sendMessage call is preceded by exactly one invocation of the hook,
\* the k-th, which has settled (resolved or rejected) by the time the
\* provider call starts; the hook is invoked once per iteration and for
\* nothing else, and is not invoked when it was not supplied
C29_HookSettledBeforeProviderCall ==
    /\ RateLimitGiven =>
          /\ \A k \in 1..Len(trace.providerCalls) :
                /\ k <= Len(trace.rateLimitCalls)
                /\ trace.rateLimitCalls[k].settled
          /\ \A k \in 1..Len(trace.rateLimitCalls) : trace.rateLimitCalls[k].iteration = k
          /\ Len(trace.rateLimitCalls) =
                Len(trace.providerCalls) + (IF HookPending THEN 1 ELSE 0)
          /\ HookPending <=> pc = "prepareRateLimit"
    /\ ~RateLimitGiven => trace.rateLimitCalls = <<>>

\* the first hook rejected, the first provider call was made all the same
\* and returned, and the second call followed a hook of its own
C29_Witness ==
    /\ RateLimitGiven
    /\ Len(trace.providerCalls) = 2
    /\ Len(trace.rateLimitCalls) = 2
    /\ trace.rateLimitCalls[1].rejected
    /\ ~trace.rateLimitCalls[2].rejected
    /\ trace.providerCalls[1].settled /\ ~trace.providerCalls[1].failed
(***************************************************************************)
(* C30.  No automatic retry.                                               *)
(***************************************************************************)
\* the provider calls of this sendMessage that failed
FailedCalls ==
    {k \in 1..Len(trace.providerCalls) :
        trace.providerCalls[k].settled /\ trace.providerCalls[k].failed}

\* the iterations of this sendMessage in which a tool handler was started
HandlerIterations ==
    {trace.handlerStarts[i].iteration : i \in 1..Len(trace.handlerStarts)}
    \cup {trace.handlerCalls[i].iteration : i \in 1..Len(trace.handlerCalls)}

\* C30: the core performs no automatic retry: a sendMessage call has issued
\* as many provider calls as it has entered loop iterations, and once a
\* provider call has failed it is the last provider call of that sendMessage
\* call, which has rejected, and no tool handler has run in or after the
\* iteration of the failed call
C30_NoAutomaticRetry ==
    /\ InFlight => Len(trace.providerCalls) = frame.iterations
    /\ \A k \in FailedCalls :
          /\ k = Len(trace.providerCalls)
          /\ pc = "settled"
          /\ lastResult.status = "rejected"
          /\ \A i \in HandlerIterations : i < k

\* the second provider call failed after a first iteration that ran a handler
C30_Witness ==
    /\ Len(trace.providerCalls) = 2
    /\ 2 \in FailedCalls
    /\ 1 \in HandlerIterations
    /\ pc = "settled"
(***************************************************************************)
(* C31.  Overlapping calls are not guarded against.                        *)
(***************************************************************************)
\* the earlier call has appended a ToolUse message and not yet its results
BetweenToolUseAndToolResult == pc = "executeToolCalls"

\* this step is a send made while the earlier call is in flight
SecondSendIssued == frame.overlapping.pc = "none" /\ frame'.overlapping.pc # "none"

\* the place in the store of the ToolUse message the earlier call waits on
PendingToolUseAt(history) ==
    CHOOSE i \in 1..Len(history) :
        /\ HasToolUse(history[i])
        /\ \A j \in 1..Len(history) : HasToolUse(history[j]) => j <= i

\* C31: a sendMessage issued while an earlier call is suspended between
\* appending a ToolUse assistant message and appending its ToolResult
\* message is not turned away: it goes on to its provider call, and its
\* user message is appended to the store at once, behind the ToolUse
\* message that has no ToolResult message yet
C31_SecondSendAppendsInBetween ==
    [][(BetweenToolUseAndToolResult /\ SecondSendIssued) =>
          /\ frame'.overlapping.pc = "callAPI"
          /\ Len(conversationHistory') = Len(conversationHistory) + 1
          /\ SubSeq(conversationHistory', 1, Len(conversationHistory)) = conversationHistory
          /\ IsUserText(Last(conversationHistory'))
          /\ Last(conversationHistory').content = Str(frame'.overlapping.userMessage)
          /\ ~AnsweredAt(conversationHistory', PendingToolUseAt(conversationHistory'))]_vars

\* no call is in flight and the store holds a ToolUse message followed by
\* the user message of the later call and only then by its ToolResult message
C31_Witness ==
    /\ pc = "idle"
    /\ frame.overlapping.pc = "none"
    /\ \E i \in 1..Len(conversationHistory) - 2 :
          /\ HasToolUse(conversationHistory[i])
          /\ ~AnsweredAt(conversationHistory, i)
          /\ IsUserText(conversationHistory[i + 1])
          /\ IsToolResultMessage(conversationHistory[i + 2])
          /\ ToolResultIds(conversationHistory[i + 2]) = ToolUseIds(conversationHistory[i])
(***************************************************************************)
(* C32.  sendMessage without a provider.                                   *)
(***************************************************************************)
\* this step is a call of sendMessage while no provider is registered
CalledWithoutProvider == pc = "idle" /\ pc' # "idle" /\ currentProvider = ""

\* C32: sendMessage called while no provider is registered rejects with
\* 'No AI provider configured' in the same step, and leaves the store, the
\* id counter and the tool registry as they were: no user message is
\* appended, no message is given an id, and no provider call and no tool
\* handler is started
C32_NoProviderNoEffect ==
    [][CalledWithoutProvider =>
          /\ pc' = "settled"
          /\ lastResult' = [status |-> "rejected", error |-> "No AI provider configured"]
          /\ conversationHistory' = conversationHistory
          /\ messageIdCounter' = messageIdCounter
          /\ tools' = tools
          /\ trace'.providerCalls = <<>>
          /\ trace'.handlerCalls = <<>>
          /\ trace'.handlerStarts = <<>>]_vars

\* a call without a provider was rejected on a restored store, with tools
\* registered
C32_Witness ==
    /\ pc = "settled"
    /\ currentProvider = ""
    /\ lastResult = [status |-> "rejected", error |-> "No AI provider configured"]
    /\ conversationHistory # <<>>
    /\ messageIdCounter = 0
    /\ tools # <<>>
(***************************************************************************)
(* C33.  Tool calls for a tool that is not registered.                     *)
(***************************************************************************)
\* the results of the tool calls of provider call k are in the store
ResultsAppended(k) == k < Len(trace.providerCalls) \/ pc \in {"loop", "settled"}

\* the ToolResult message of provider call k
ResultMessageOf(k) == conversationHistory[trace.providerCalls[k].storeLen + 2]

\* the handlers run for the tool call of this id
HandlersRunFor(id) ==
    {i \in 1..Len(trace.handlerCalls) :
        Has(trace.handlerCalls[i], "id") /\ trace.handlerCalls[i].id = id}

IsUnknownTool(call) == ~HasTool(tools, call.name)

\* provider call k asked for a tool that is not registered
AskedForUnknownTool(k) ==
    /\ CarriedToolCalls(trace.providerCalls[k])
    /\ \E j \in 1..Len(trace.providerCalls[k].response.toolCalls) :
          IsUnknownTool(trace.providerCalls[k].response.toolCalls[j])

\* C33: a tool call whose name matches no registered tool runs no handler
\* and its ToolResult block, at the place of the call, is an error with the
\* content "Unknown tool: <name>"; the calls of the same response for
\* registered tools each run their handler once; the call is not rejected
\* for it, and the loop goes on to the next provider call while the budget
\* lasts
C33_UnknownToolBecomesErrorResult ==
    /\ \A k \in 1..Len(trace.providerCalls) :
          (CarriedToolCalls(trace.providerCalls[k]) /\ ResultsAppended(k)) =>
             /\ IsToolResultMessage(ResultMessageOf(k))
             /\ Len(ResultMessageOf(k).content.parts)
                   = Len(trace.providerCalls[k].response.toolCalls)
             /\ \A j \in 1..Len(trace.providerCalls[k].response.toolCalls) :
                   \E call \in {trace.providerCalls[k].response.toolCalls[j]} :
                      IF IsUnknownTool(call)
                      THEN /\ ResultMessageOf(k).content.parts[j] =
                                [type |-> "tool_result", tool_use_id |-> call.id,
                                 content |-> "Unknown tool: " \o call.name, is_error |-> TRUE]
                           /\ HandlersRunFor(call.id) = {}
                      ELSE /\ ResultMessageOf(k).content.parts[j].tool_use_id = call.id
                           /\ Cardinality(HandlersRunFor(call.id)) = 1
    /\ Rejected => \/ currentProvider = ""
                   \/ ProviderCallsMade > 0 /\ Last(trace.providerCalls).failed
    /\ ( /\ pc = "loop" /\ frame.iterations >= 1 /\ AskedForUnknownTool(frame.iterations)
         /\ frame.iterations < frame.MAX_ITERATIONS ) => ENABLED enterIteration

\* a response asked for an unknown tool and then for a registered one; both
\* have their results and the provider was called again
C33_Witness ==
    /\ pc = "callAPI"
    /\ Len(trace.providerCalls) = 2
    /\ CarriedToolCalls(trace.providerCalls[1])
    /\ Len(trace.providerCalls[1].response.toolCalls) = 2
    /\ IsUnknownTool(trace.providerCalls[1].response.toolCalls[1])
    /\ ~IsUnknownTool(trace.providerCalls[1].response.toolCalls[2])
    /\ Len(trace.handlerCalls) = 1
(***************************************************************************)
(* C34.  Prompt augmentation and the store.                                *)
(***************************************************************************)
\* this step is sendMessage from its entry to the head of its loop
SendStep == pc = "idle" /\ pc' = "loop"

\* the summaries buildAugmentedPrompt puts in front of a prompt
SummaryTexts ==
    {"S", "[Error generating summary: boom]", "[code_summary returned no data]",
     "[code_summary tool unavailable]", "[No summary generated]"}

IsAugmentationOf(text, original) ==
    \E summary \in SummaryTexts : text = "Code summary:\n" \o summary \o "\n\n" \o original

\* the views getHistoryView can return over this store
ViewsOf(history) ==
    { Outbound(getHistoryView(history, minimizeTokens, limitMessages)) :
        minimizeTokens \in BOOLEAN, limitMessages \in 0..MaxLimit }

\* list is a view of the store but for the text of its message at idx
IsViewButFor(list, idx, history) ==
    \E view \in ViewsOf(history) :
       /\ Len(view) = Len(list)
       /\ \A k \in 1..Len(list) : k # idx => list[k] = view[k]
       /\ [f \in DOMAIN list[idx] \ {"content"} |-> list[idx][f]]
             = [f \in DOMAIN view[idx] \ {"content"} |-> view[idx][f]]
       /\ IsAugmentationOf(list[idx].content.text, view[idx].content.text)

\* C34: prompt augmentation never reaches the store.  A sendMessage that is
\* no continuation leaves the messages of the store as they were and
\* appends at most the user message with exactly the text the caller
\* passed; the list it sends to the provider is a view of that store in
\* which the latest user text message alone has the code-summary prefix in
\* front of its text.  A continuation sends a view as it is
C34_AugmentationStaysOutbound ==
    [][SendStep =>
          /\ IsPrefix(conversationHistory, conversationHistory')
          /\ Len(conversationHistory') =
                Len(conversationHistory) + (IF trace'.appended THEN 1 ELSE 0)
          /\ trace'.appended =>
                /\ IsUserText(Last(conversationHistory'))
                /\ Last(conversationHistory').content = Str(trace'.userMessage)
          /\ IF frame'.isContinuation \/ findLatestUserTextMessageIndex(frame'.messages) = 0
             THEN frame'.messages \in ViewsOf(conversationHistory')
             ELSE IsViewButFor(frame'.messages,
                               findLatestUserTextMessageIndex(frame'.messages),
                               conversationHistory')]_vars

\* a second request is in flight: its prompt went out with the summary in
\* front of it, and both user messages of the store hold the caller's text
C34_Witness ==
    /\ pc = "loop"
    /\ ~frame.isContinuation
    /\ Len(trace.handlerCalls) = 1
    /\ Len(conversationHistory) >= 3
    /\ IsUserText(conversationHistory[1])
    /\ conversationHistory[1].content = Str("hi")
    /\ IsUserText(Last(conversationHistory))
    /\ Last(conversationHistory).content = Str("hi")
    /\ IsUserText(Last(frame.messages))
    /\ Last(frame.messages).content = Str("Code summary:\nS\n\nhi")
(***************************************************************************)
(* C35.  No orphaned ToolResult in a view.                                 *)
(***************************************************************************)
\* the largest limit the views of this claim are taken with
MaxViewLimit == 2

\* every ToolUse message of the store has its ToolResult message behind it
AdjacencyHolds(history) ==
    \A i \in 1..Len(history) : HasToolUse(history[i]) => AnsweredAt(history, i)

\* every tool_result block of the view is in a message that comes right
\* after the assistant message with the tool_use block of its id
NoOrphanedToolResult(view) ==
    \A k \in 1..Len(view) :
       \A id \in {ToolResultIds(view[k])[n] : n \in 1..Len(ToolResultIds(view[k]))} :
          /\ k > 1
          /\ view[k - 1].role = "assistant"
          /\ \E n \in 1..Len(ToolUseIds(view[k - 1])) : ToolUseIds(view[k - 1])[n] = id

\* the view holds the last tool-bearing assistant message of the store
HoldsLastToolMessage(view, history) ==
    findLastToolInteractionIndex(history) # 0 =>
        \E k \in 1..Len(view) :
            /\ view[k]._id = history[findLastToolInteractionIndex(history)]._id
            /\ ToolUseIds(view[k]) = ToolUseIds(history[findLastToolInteractionIndex(history)])

\* the last tool-bearing assistant message lies before the window of the
\* last limit user text messages
LastToolBeforeWindow(history, limit) ==
    /\ findLastToolInteractionIndex(history) # 0
    /\ findLastToolInteractionIndex(history) - 1
          < Len(history) - Len(sliceHistoryByUserMessages(history, limit))

\* C35: for every minimize flag and every limit, the view of a store in
\* which every ToolUse message is followed by its ToolResult message has no
\* orphaned ToolResult, and holds the most recent tool-bearing assistant
\* message of the store, if there is one, even when that message lies
\* before the window of the last `limit` user text messages
C35_NoOrphanedToolResult ==
    AdjacencyHolds(conversationHistory) =>
        \A minimizeTokens \in BOOLEAN, limitMessages \in 0..MaxViewLimit :
          \E view \in {getHistoryView(conversationHistory, minimizeTokens, limitMessages)} :
            /\ NoOrphanedToolResult(view)
            /\ HoldsLastToolMessage(view, conversationHistory)

\* a store of two requests, the first with a tool round, the second without:
\* the window of the last user text message is widened to the tool round
C35_Witness ==
    /\ AdjacencyHolds(conversationHistory)
    /\ LastToolBeforeWindow(conversationHistory, 1)
    /\ Len(getHistoryView(conversationHistory, TRUE, 1))
          > Len(sliceHistoryByUserMessages(conversationHistory, 1))
    /\ \E k \in 1..Len(getHistoryView(conversationHistory, TRUE, 1)) :
          IsToolResultMessage(getHistoryView(conversationHistory, TRUE, 1)[k])
(***************************************************************************)
(* C36.  The outbound list is built once.                                  *)
(***************************************************************************)
\* the length of the store when the loop of this sendMessage call began
StoreAtLoopEntry == Len(trace.storeAtStart) + (IF trace.appended THEN 1 ELSE 0)

\* the messages this sendMessage call has appended in its loop
AppendedInLoop == SubSeq(conversationHistory, StoreAtLoopEntry + 1, Len(conversationHistory))

\* list is a view of history with the optional system prefix, as it is or
\* with the prompt of its latest user text message augmented
IsInitialView(list, history) ==
    \/ list \in ViewsOf(history)
    \/ /\ findLatestUserTextMessageIndex(list) # 0
       /\ IsViewButFor(list, findLatestUserTextMessageIndex(list), history)

\* C36: the outbound list of a sendMessage call is built once, before the
\* first provider call: the list passed to the k-th provider call is the
\* list as it was built, a view of the store the loop began with behind the
\* optional system prefix, followed verbatim and in order by the 2(k-1)
\* ToolUse and ToolResult messages the call has appended to the store, with
\* options.minimizeTokens set or not
C36_OutboundBuiltOnce ==
    pc = "callAPI" =>
        /\ Len(AppendedInLoop) = 2 * (Len(trace.providerCalls) - 1)
        /\ frame.messages = trace.outbound \o AppendedInLoop
        /\ \A j \in 1..(Len(trace.providerCalls) - 1) :
              /\ HasToolUse(AppendedInLoop[2 * j - 1])
              /\ IsToolResultMessage(AppendedInLoop[2 * j])
        /\ IsInitialView(trace.outbound, SubSeq(conversationHistory, 1, StoreAtLoopEntry))

\* the second provider call of a call whose list was built abridged, with an
\* earlier tool round collapsed to a summary: the round of this call is in
\* the list in full, and a view taken now would collapse another round
C36_Witness ==
    /\ pc = "callAPI"
    /\ Len(trace.providerCalls) = 2
    /\ \E k \in 1..Len(trace.outbound) : IsSummaryMessage(trace.outbound[k])
    /\ Len(frame.messages) = Len(trace.outbound) + 2
    /\ HasToolUse(frame.messages[Len(frame.messages) - 1])
    /\ Len(Outbound(getHistoryView(conversationHistory, TRUE, 0))) < Len(frame.messages)

(***************************************************************************)
(* C37.  The pending Continue button of the chat client.                   *)
(***************************************************************************)
\* the exchange that is handed to the chat client ended with
\* needsContinuation
AskedToContinue == lastResult.status = "resolved" /\ Has(lastResult.value, "needsContinuation")

\* a step of the chat client that ends its await of sendMessage
ExchangeCompletes == pc = "settled" /\ pc' = "idle"

\* a step that clears or restores the chat: a step between two exchanges
\* that is not a registration
ChatReplaced ==
    pc = "idle" /\ pc' = "idle" /\ currentProvider' = currentProvider /\ tools' = tools

\* a step that is the click on the Continue button
ButtonClicked == pc = "idle" /\ pc' # "idle" /\ trace'.userMessage = ContinueToken

\* C37, as stated, is violated: a Continue button is pending only while the
\* most recently completed exchange returned needsContinuation, so that the
\* completion of a later ordinary exchange without the flag leaves none
C37_PendingOnlyAfterPausedExchange ==
    pc = "idle" /\ pendingContinueButton # Null => paused

\* C37, what holds: a button becomes pending only at the completion of an
\* exchange that returned needsContinuation, and then carries its counts;
\* that completion always leaves one pending; the click on the button
\* leaves none; a step that replaces the chat leaves none (clearChat and
\* the chat client's own restore) or the one there was (the import of a
\* project archive); and any other step, the completion of an exchange
\* without the flag among them, leaves the button as it was
C37_ButtonShownByPausedExchangeOnly ==
    [][ /\ ExchangeCompletes /\ AskedToContinue
           => pendingContinueButton' =
                 showContinueToolsButton(lastResult.value.iterationsUsed,
                                         lastResult.value.maxIterations)
        /\ ButtonClicked => pendingContinueButton' = Null
        /\ ChatReplaced => pendingContinueButton' \in {Null, pendingContinueButton}
        /\ ~(ExchangeCompletes /\ AskedToContinue) /\ ~ButtonClicked /\ ~ChatReplaced
           => pendingContinueButton' = pendingContinueButton ]_vars

\* an ordinary exchange has completed without the flag while the button of
\* an earlier exchange was pending: the button is still there
C37_Witness ==
    /\ pc = "idle"
    /\ pendingContinueButton = showContinueToolsButton(1, 1)
    /\ ~paused
    /\ Len(conversationHistory) > 0
    /\ Last(conversationHistory).role = "assistant"
    /\ IsString(Last(conversationHistory).content)

(***************************************************************************)
(* C38.  Message ids after a saved chat has been restored.                 *)
(***************************************************************************)
\* the messages of a store that carry an id
WithId(history) == { i \in 1..Len(history) : Has(history[i], "_id") }

\* no two messages of the store carry the same id
IdsUnique(history) ==
    \A i, j \in WithId(history) : i # j => history[i]._id # history[j]._id

\* a step of an exchange that makes the store longer
AppendsToStore == pc' # "idle" /\ Len(conversationHistory') > Len(conversationHistory)

\* C38, as stated, is violated: the ids the next sendMessage gives to the
\* restored messages without one and to the messages it appends keep all ids
\* of the store unique
C38_IdsUniqueAfterRestore == IdsUnique(conversationHistory)

\* C38, what holds: a message that an exchange appends gets an id greater
\* than the id of every message before it, restored ones included; a
\* restored message without an id is given, by the next sendMessage that has
\* a provider, an id greater than every id before it in the store; and an id
\* that is there is never changed
C38_NewIdsAboveEarlierIds ==
    [][ /\ AppendsToStore
           => \A i \in (Len(conversationHistory) + 1)..Len(conversationHistory') :
                 /\ Has(conversationHistory'[i], "_id")
                 /\ \A j \in 1..(i - 1) :
                       /\ Has(conversationHistory'[j], "_id")
                       /\ conversationHistory'[i]._id > conversationHistory'[j]._id
        /\ pc # "idle" \/ pc' # "idle"
           => \A i \in 1..Len(conversationHistory) :
                 IF Has(conversationHistory[i], "_id")
                 THEN conversationHistory'[i]._id = conversationHistory[i]._id
                 ELSE Has(conversationHistory'[i], "_id")
                      => \A j \in 1..(i - 1) :
                            conversationHistory'[i]._id > conversationHistory'[j]._id ]_vars

\* sendMessage has been called on a restored chat whose question had no id
\* and whose reply had the id 1: the question has been given an id and the
\* new message an id above both
C38_Witness ==
    /\ pc = "loop"
    /\ messageIdCounter = 2
    /\ Len(trace.storeAtStart) = 2
    /\ ~Has(trace.storeAtStart[1], "_id")
    /\ trace.storeAtStart[2]._id = 1
    /\ Len(conversationHistory) = 3
    /\ conversationHistory[3]._id = 2
    /\ conversationHistory[3]._id > conversationHistory[1]._id
    /\ conversationHistory[3]._id > conversationHistory[2]._id

(***************************************************************************)
(* C39.  closeTab and the calls that overtake it.                          *)
(***************************************************************************)
\* a closeTab has come to its end
CloseEnded == tabManager.lastClose # NoClose

\* C39, as stated, is violated: the closeTab that ended last has removed no
\* tab but its own, its own tab is not open any more, and it has left
\* activeTab at 'chat' or at a tab that is open
C39_ClosesExactlyItsTab ==
    CloseEnded
    => /\ tabManager.lastClose.removed \subseteq {tabManager.lastClose.tabId}
       /\ tabManager.lastClose.tabId \notin OpenIds(tabManager.tabs)
       /\ tabManager.lastClose.activeAfter

\* C39, what holds: a closeTab during which no tab that was open at its
\* call has been closed by another call has removed exactly its own tab, and
\* has left activeTab at 'chat' or at an open tab if it found it so; a
\* closeTab never removes more than one tab, and the session, the dirty mark
\* and the tab element of its tab are always gone
C39_ClosesItsTabUnlessOvertaken ==
    CloseEnded
    => /\ ~tabManager.lastClose.overtaken
          => /\ tabManager.lastClose.removed = {tabManager.lastClose.tabId}
             /\ tabManager.lastClose.activeBefore => tabManager.lastClose.activeAfter
       /\ Cardinality(tabManager.lastClose.removed) <= 1
       /\ tabManager.lastClose.tabId
             \notin tabManager.sessions \cup tabManager.dirtyFiles \cup tabManager.tabElements

\* a closeTab that was suspended while another call closed its tab has ended
\* and has removed another tab, which was the active one
C39_Witness ==
    /\ CloseEnded
    /\ tabManager.lastClose.overtaken
    /\ tabManager.lastClose.removed # {}
    /\ tabManager.lastClose.tabId \notin tabManager.lastClose.removed
    /\ tabManager.lastClose.activeBefore
    /\ ~tabManager.lastClose.activeAfter
    /\ Len(tabManager.tabs) > 0


====
